---- MODULE Spec2Model ----
(***************************************************************************)
(* Model of the document-to-issue engine of jira-ticket-master:            *)
(* ComprehensiveDocumentAnalyzer (src/comprehensive_document_analyzer.py). *)
(*                                                                         *)
(* Texts are TLA+ strings and every test the code makes on a text          *)
(* (startswith, endswith, "in", lower, split, slicing, join, number        *)
(* formatting) is computed on the characters.  Characters outside ASCII    *)
(* cannot be written in a TLA+ string: the bullet glyphs other than "-"    *)
(* are written "*", "+", "~", "^", the a-umlaut and u-umlaut are written  *)
(* "ae" and "ue", the emoji of the section headers are left out, and the   *)
(* backquotes of a code fence are written "~~~".                           *)
(***************************************************************************)
EXTENDS Integers, Sequences, FiniteSets, TLC

(***************************************************************************)
(* Bounds of the model.                                                    *)
(***************************************************************************)
MaxBlocks == 3
MaxImages == 2
MaxNarrative == 6
MaxRuns == 2
MaxDocuments == 2
MaxLinked == 1
\* The threads of run_creation_logic started in a run, and the tickets of a
\* preview.
MaxWorkers == 2
MaxTickets == 2
\* The images and the LLM tasks of a document in AI-powered mode.
MaxAiImages == 7
MaxAiTasks == 5

(***************************************************************************)
(* Python string operations.                                               *)
(***************************************************************************)
CharAt(s, i) == SubSeq(s, i, i)

\* s.startswith(p)
StartsWith(s, p) == Len(p) <= Len(s) /\ SubSeq(s, 1, Len(p)) = p

\* s.startswith((p1, p2, ...))
StartsWithAny(s, ps) == \E p \in ps : StartsWith(s, p)

\* s.endswith(p)
EndsWith(s, p) == Len(p) <= Len(s) /\ SubSeq(s, Len(s) - Len(p) + 1, Len(s)) = p

\* kw in s
Contains(s, kw) ==
    LET n == Len(kw) IN \E i \in 1..(Len(s) - n + 1) : SubSeq(s, i, i + n - 1) = kw

\* any(keyword in s for keyword in kws)
ContainsAny(s, kws) == \E kw \in kws : Contains(s, kw)

Whitespace == {" ", "\t", "\n", "\r"}

\* The lower-case and the upper-case form of the letters.
ToLower ==
    [A |-> "a", B |-> "b", C |-> "c", D |-> "d", E |-> "e", F |-> "f", G |-> "g",
     H |-> "h", I |-> "i", J |-> "j", K |-> "k", L |-> "l", M |-> "m", N |-> "n",
     O |-> "o", P |-> "p", Q |-> "q", R |-> "r", S |-> "s", T |-> "t", U |-> "u",
     V |-> "v", W |-> "w", X |-> "x", Y |-> "y", Z |-> "z"]

ToUpper ==
    [a |-> "A", b |-> "B", c |-> "C", d |-> "D", e |-> "E", f |-> "F", g |-> "G",
     h |-> "H", i |-> "I", j |-> "J", k |-> "K", l |-> "L", m |-> "M", n |-> "N",
     o |-> "O", p |-> "P", q |-> "Q", r |-> "R", s |-> "S", t |-> "T", u |-> "U",
     v |-> "V", w |-> "W", x |-> "X", y |-> "Y", z |-> "Z"]

IsAlpha(c) == c \in DOMAIN ToLower \/ c \in DOMAIN ToUpper
LowerChar(c) == IF c \in DOMAIN ToLower THEN ToLower[c] ELSE c
UpperChar(c) == IF c \in DOMAIN ToUpper THEN ToUpper[c] ELSE c

\* The concatenation of the strings f[lo], ..., f[hi].
RECURSIVE ConcatRange(_, _, _)
ConcatRange(f, lo, hi) ==
    IF lo > hi THEN ""
    ELSE IF lo = hi THEN f[lo]
         ELSE LET mid == (lo + hi) \div 2
              IN  ConcatRange(f, lo, mid) \o ConcatRange(f, mid + 1, hi)

\* s.lower()
Lower(s) == ConcatRange([i \in 1..Len(s) |-> LowerChar(CharAt(s, i))], 1, Len(s))

\* s.title(): the first letter of every run of letters in upper case, the
\* other letters in lower case.
Title(s) ==
    ConcatRange([i \in 1..Len(s) |->
                    IF i > 1 /\ IsAlpha(CharAt(s, i - 1))
                    THEN LowerChar(CharAt(s, i))
                    ELSE UpperChar(CharAt(s, i))], 1, Len(s))

\* not s.strip()
IsBlank(s) == \A i \in 1..Len(s) : CharAt(s, i) \in Whitespace

\* The k-th smallest member of a set of numbers.
KthOf(S, k) == CHOOSE i \in S : Cardinality({j \in S : j < i}) = k - 1

\* s.split(): the maximal runs of non-whitespace characters, in order.
Split(s) ==
    LET IsWs(i) == CharAt(s, i) \in Whitespace
        starts == {i \in 1..Len(s) : ~IsWs(i) /\ (i = 1 \/ IsWs(i - 1))}
        EndOf(i) == CHOOSE e \in i..Len(s) :
                        /\ \A j \in i..e : ~IsWs(j)
                        /\ (e = Len(s) \/ IsWs(e + 1))
    IN  [k \in 1..Cardinality(starts) |->
            LET i == KthOf(starts, k) IN SubSeq(s, i, EndOf(i))]

\* s.split(sep) for a one-character separator: the parts between the
\* separators, empty parts included.
SplitOn(s, sep) ==
    LET cuts == {i \in 1..Len(s) : CharAt(s, i) = sep}
        Cut(k) == IF k = 0 THEN 0
                  ELSE IF k > Cardinality(cuts) THEN Len(s) + 1
                       ELSE KthOf(cuts, k)
    IN  [k \in 1..(Cardinality(cuts) + 1) |-> SubSeq(s, Cut(k - 1) + 1, Cut(k) - 1)]

\* sep.join(parts)
Join(parts, sep) ==
    ConcatRange([k \in 1..Len(parts) |-> IF k = 1 THEN parts[k] ELSE sep \o parts[k]],
                1, Len(parts))

\* seq[:n]
Take(seq, n) == SubSeq(seq, 1, IF Len(seq) < n THEN Len(seq) ELSE n)

Digits == "0123456789"

\* str(n) for n >= 0
RECURSIVE ToStr(_)
ToStr(n) ==
    IF n < 10 THEN CharAt(Digits, n + 1)
    ELSE ToStr(n \div 10) \o CharAt(Digits, (n % 10) + 1)

\* f"{n:,}" for n >= 0: decimal digits in groups of three.
RECURSIVE ToStrCommas(_)
ToStrCommas(n) ==
    IF n < 1000 THEN ToStr(n)
    ELSE LET r == n % 1000
         IN  ToStrCommas(n \div 1000) \o ","
                 \o (IF r < 10 THEN "00" ELSE IF r < 100 THEN "0" ELSE "") \o ToStr(r)

\* int(s) for a string of decimal digits
RECURSIVE ToInt(_)
ToInt(s) ==
    IF s = "" THEN 0
    ELSE 10 * ToInt(SubSeq(s, 1, Len(s) - 1))
         + ((CHOOSE j \in 1..Len(Digits) : CharAt(Digits, j) = CharAt(s, Len(s))) - 1)

(***************************************************************************)
(* Program constants.                                                      *)
(***************************************************************************)
\* content[:100] and len(content) > 100 of the issue title
TitleMax == 100
\* len(content) < 15: too short to be an issue
ShortLen == 15
\* block['type'] == 'list_item' and len(content) > 20
ListItemMin == 20
\* len(content) > 30 of the content heuristic
HeuristicMin == 30
\* len(current_issue['description_parts']) > 4
OpenPartsMax == 4
\* issue_data['title'].lower().split()[:3]
TitleKeywords == 3

(***************************************************************************)
(* The values the environment supplies: the paragraphs and tables of the   *)
(* document, the images of the package, the answer of the LLM.             *)
(***************************************************************************)
HeadingTypes == {"heading", "title", "section_header"}

DemoLink == [text |-> "Demo video", url |-> "https://youtu.be/xyz", type |-> "video"]
MailLink == [text |-> "a@b.com", url |-> "mailto:a@b.com", type |-> "email"]
SpecLink == [text |-> "Report", url |-> "https://example.org/report.pdf", type |-> "document"]

\* A heading longer than 30 characters that holds action keywords.
HeadingText == "Mobile Homepage: fix the display issues"

LongText ==
    "3. Please implement the new contact form so that every visitor can reach the support team from any page of the site"

\* A paragraph as the extraction loop sees it: the type the classifier gave
\* it, its stripped text, the number of its runs that hold a picture, and
\* the hyperlinks found in it.
Paragraphs ==
    { [type |-> "heading",       text |-> HeadingText,                     image_runs |-> 0, links |-> <<>>],
      [type |-> "separator",     text |-> "----------",                    image_runs |-> 0, links |-> <<>>],
      [type |-> "numbered_list", text |-> "1. Fix the broken mobile menu", image_runs |-> 0, links |-> <<DemoLink>>],
      [type |-> "numbered_list", text |-> "2. Do Y",                       image_runs |-> 0, links |-> <<>>],
      [type |-> "numbered_list", text |-> LongText,                        image_runs |-> 0, links |-> <<>>],
      [type |-> "list_item",     text |-> "Footer links overlap the logo", image_runs |-> 0, links |-> <<>>],
      [type |-> "text",          text |-> "Austria | Homecare",            image_runs |-> 0, links |-> <<MailLink>>],
      [type |-> "text",          text |-> "Header image looks blurry",     image_runs |-> 1, links |-> <<SpecLink>>],
      [type |-> "text",          text |-> "Logo overlaps the sidebar",     image_runs |-> 0, links |-> <<>>],
      [type |-> "empty",         text |-> "",                              image_runs |-> 2, links |-> <<>>] }

\* A sentence longer than 30 characters that holds action keywords.
ActionText == "Please update the footer display on all phones"

\* The paragraphs of a long narrative: a plain text with a picture and a
\* link, and a sentence with action keywords.
NarrativeParagraphs ==
    { [type |-> "text", text |-> "Header image looks blurry", image_runs |-> 1, links |-> <<SpecLink>>],
      [type |-> "text", text |-> ActionText,                  image_runs |-> 0, links |-> <<>>] }

\* A table as rows of cell texts.
Tables == { << <<"Page", "Status">>, <<"Home", "Broken">> >> }

\* The size in bytes of the n-th picture of the package.
ImageBytes(n) == 1024 * n

\* extract_images_from_docx: image_<n><ext>, n counting from 1.
ExtractedImage(n) ==
    [filename |-> "image_" \o ToStr(n) \o ".png", size |-> ImageBytes(n)]

\* What the LLM call does: it is not configured, it raises, or it returns
\* a list of tasks.
AiOutcomes == {"unavailable", "raises", "returns"}

AiTasks ==
    << [title |-> "Fix mobile menu", priority |-> "High", complexity |-> "Simple", category |-> "Bug"],
       [title |-> "Fix footer links", priority |-> "Low", complexity |-> "Medium", category |-> "Task"] >>

VARIABLES
    pc,                \* where the pipeline stands
    error,             \* the exception raised, "" when none
    content_blocks,    \* self.content_blocks
    extracted_images,  \* self.extracted_images
    image_counter,     \* image_counter of extract_comprehensive_content
    table_counter,     \* table_counter of extract_comprehensive_content
    ai_outcome,        \* what the LLM call did in this run
    ai_insights,       \* ai_insights: <<>> for None, <<tasks>> for a list
    categories,        \* categories of create_comprehensive_issues
    issues,            \* issues of create_comprehensive_issues and of the ticket loop
    current_issue,     \* current_issue: <<>> for None, <<issue>> when open
    pos,               \* the index of the block the loop stands at
    extracted_links,   \* self.extracted_links
    extracted_tables,  \* self.extracted_tables
    documents,         \* the calls of extract_comprehensive_content so far
    previous_issues,   \* what the earlier calls of create_comprehensive_issues returned
    status_name,       \* status_name of create_jira_tickets_with_type, "" for None
    ticket_index,      \* the index of the issue the ticket loop stands at
    created_tickets,   \* created_tickets of create_jira_tickets_with_type
    ticket_details,    \* ticket_details of create_jira_tickets_with_type
    jira_calls,        \* the create_issue calls made, with what they ended in
    create_button,     \* the state of self.create_button
    preview_button,    \* the state of self.preview_button
    ticket_selection_vars, \* self.ticket_selection_vars: the check boxes of the tickets
    stdout,            \* what sys.stdout is bound to
    workers,           \* where each thread of run_creation_logic stands
    document_images,   \* extracted_images of get_ai_enhanced_issues
    ai_tasks,          \* ai_tasks of get_ai_enhanced_issues
    enhanced_issues    \* enhanced_issues of get_ai_enhanced_issues

vars == <<pc, error, content_blocks, extracted_images, image_counter, table_counter,
          ai_outcome, ai_insights, categories, issues, current_issue, pos,
          extracted_links, extracted_tables, documents, previous_issues,
          status_name, ticket_index, created_tickets, ticket_details, jira_calls,
          create_button, preview_button, ticket_selection_vars, stdout, workers,
          document_images, ai_tasks, enhanced_issues>>

extraction == <<content_blocks, extracted_images, image_counter, table_counter,
                extracted_links, extracted_tables, documents>>
segmentation == <<ai_outcome, ai_insights, categories, issues, current_issue, pos>>
sink == <<status_name, ticket_index, created_tickets, ticket_details, jira_calls>>
gui == <<create_button, preview_button, ticket_selection_vars, stdout, workers>>
ai_mode == <<document_images, ai_tasks, enhanced_issues>>

EmptyCategories ==
    [device     |-> [mobile |-> <<>>, desktop |-> <<>>, both |-> <<>>],
     page_type  |-> [homepage |-> <<>>, about |-> <<>>, news |-> <<>>, contact |-> <<>>, general |-> <<>>],
     component  |-> [carousel |-> <<>>, navigation |-> <<>>, images |-> <<>>, forms |-> <<>>, layout |-> <<>>],
     issue_type |-> [bug |-> <<>>, improvement |-> <<>>, feature |-> <<>>, content |-> <<>>]]

\* The analyzer and the window after __init__.
Init ==
    /\ pc = "idle"
    /\ error = ""
    /\ content_blocks = <<>>
    /\ extracted_images = <<>>
    /\ image_counter = 0
    /\ table_counter = 0
    /\ ai_outcome = "unavailable"
    /\ ai_insights = <<>>
    /\ categories = EmptyCategories
    /\ issues = <<>>
    /\ current_issue = <<>>
    /\ pos = 0
    /\ extracted_links = <<>>
    /\ extracted_tables = <<>>
    /\ documents = 0
    /\ previous_issues = <<>>
    /\ status_name = ""
    /\ ticket_index = 0
    /\ created_tickets = <<>>
    /\ ticket_details = <<>>
    /\ jira_calls = <<>>
    /\ create_button = "disabled"
    /\ preview_button = "normal"
    /\ ticket_selection_vars = <<>>
    /\ stdout = "console"
    /\ workers = <<>>
    /\ document_images = <<>>
    /\ ai_tasks = <<>>
    /\ enhanced_issues = <<>>

(***************************************************************************)
(* classify_link_type                                                      *)
(***************************************************************************)
VideoPlatforms ==
    {"youtube.com", "youtu.be", "vimeo.com", "dailymotion.com", "twitch.tv",
     "facebook.com/watch", "instagram.com/tv", "tiktok.com", "linkedin.com/video"}
DocumentExtensions ==
    {".pdf", ".doc", ".docx", ".xls", ".xlsx", ".ppt", ".pptx", ".txt", ".rtf", ".odt",
     ".ods", ".odp", ".pages", ".numbers", ".keynote"}
ImageExtensions ==
    {".jpg", ".jpeg", ".png", ".gif", ".bmp", ".svg", ".webp", ".tiff", ".ico", ".heic", ".raw"}
SocialPlatforms ==
    {"facebook.com", "twitter.com", "linkedin.com", "instagram.com", "pinterest.com",
     "snapchat.com", "reddit.com", "discord.com"}
CloudPlatforms ==
    {"dropbox.com", "drive.google.com", "onedrive.com", "icloud.com", "box.com", "mega.nz",
     "mediafire.com"}
DevPlatforms ==
    {"github.com", "gitlab.com", "bitbucket.org", "stackoverflow.com", "codepen.io",
     "jsfiddle.net", "repl.it"}

\* classify_link_type with the social platforms tested before the video
\* platforms.
classify_link_type_social_first(url) ==
    LET url_lower == Lower(url)
    IN  IF url = "" \/ StartsWith(url, "internal:") THEN "internal"
        ELSE IF StartsWith(url, "mailto:") THEN "email"
        ELSE IF ContainsAny(url_lower, SocialPlatforms) THEN "social"
        ELSE IF ContainsAny(url_lower, VideoPlatforms) THEN "video"
        ELSE IF ContainsAny(url_lower, DocumentExtensions) THEN "document"
        ELSE IF ContainsAny(url_lower, ImageExtensions) THEN "image"
        ELSE IF ContainsAny(url_lower, CloudPlatforms) THEN "cloud"
        ELSE IF ContainsAny(url_lower, DevPlatforms) THEN "development"
        ELSE IF StartsWithAny(url, {"http://", "https://"}) THEN "external"
        ELSE "unknown"

classify_link_type(url) ==
    LET url_lower == Lower(url)
    IN  IF url = "" \/ StartsWith(url, "internal:") THEN "internal"
        ELSE IF StartsWith(url, "mailto:") THEN "email"
        ELSE IF ContainsAny(url_lower, VideoPlatforms) THEN "video"
        ELSE IF ContainsAny(url_lower, DocumentExtensions) THEN "document"
        ELSE IF ContainsAny(url_lower, ImageExtensions) THEN "image"
        ELSE IF ContainsAny(url_lower, SocialPlatforms) THEN "social"
        ELSE IF ContainsAny(url_lower, CloudPlatforms) THEN "cloud"
        ELSE IF ContainsAny(url_lower, DevPlatforms) THEN "development"
        ELSE IF StartsWithAny(url, {"http://", "https://"}) THEN "external"
        ELSE "unknown"

\* The targets of the hyperlink relationships of a document.
UrlPrefixes == {"https://", "mailto:", "internal:", ""}
UrlHosts == {"youtu.be/x", "facebook.com/watch", "facebook.com/p", "github.com/a",
             "drive.google.com/f", "example.com/a"}
UrlEndings == {"", ".pdf", ".PNG"}
Urls == {p \o h \o e : p \in UrlPrefixes, h \in UrlHosts, e \in UrlEndings} \cup {""}

\* The link of a run inside a hyperlink element.
Hyperlink(text, url) ==
    [text |-> text, url |-> url, type |-> classify_link_type(url)]

\* A paragraph whose only run is a hyperlink with the text "Link".
LinkParagraph(url) ==
    [type |-> "text", text |-> "Link", image_runs |-> 0, links |-> <<Hyperlink("Link", url)>>]

(***************************************************************************)
(* extract_comprehensive_content                                           *)
(***************************************************************************)
\* The head of the extraction: the block list is emptied and the pictures
\* of the package are extracted (none when the extraction fails).
StartExtraction(n) ==
    /\ pc = "idle"
    /\ pc' = "extract"
    /\ content_blocks' = <<>>
    /\ extracted_images' = [i \in 1..n |-> ExtractedImage(i)]
    /\ image_counter' = 0
    /\ table_counter' = 0
    /\ documents' = documents + 1
    /\ UNCHANGED <<error, extracted_links, extracted_tables, segmentation, previous_issues, sink, gui, ai_mode>>

\* The content block of a paragraph.
ParagraphBlock(p, counter) ==
    [type       |-> p.type,
     content    |-> p.text,
     has_image  |-> p.image_runs > 0,
     image_ref  |-> IF p.image_runs > 0 THEN "image_" \o ToStr(counter) ELSE "",
     links      |-> p.links,
     table_data |-> <<>>]

\* One paragraph of the document body, of a document of at most max
\* elements.
ExtractParagraphWithin(p, max) ==
    /\ pc = "extract"
    /\ Len(content_blocks) < max
    /\ extracted_links' = extracted_links \o p.links
    /\ image_counter' = image_counter + p.image_runs
    /\ content_blocks' =
          IF p.text # "" \/ p.image_runs > 0 \/ p.links # <<>>
          THEN Append(content_blocks, ParagraphBlock(p, image_counter'))
          ELSE content_blocks
    /\ UNCHANGED <<pc, error, extracted_images, table_counter, extracted_tables, documents,
                   segmentation, previous_issues, sink, gui, ai_mode>>

ExtractParagraph(p) == ExtractParagraphWithin(p, MaxBlocks)

\* A paragraph that is one hyperlink.
ExtractHyperlink(url) == ExtractParagraphWithin(LinkParagraph(url), MaxLinked)

\* extract_comprehensive_content is called for another document on the
\* same analyzer.
ExtractAgain(n) ==
    /\ pc = "extract"
    /\ documents < MaxDocuments
    /\ content_blocks' = <<>>
    /\ extracted_images' = [i \in 1..n |-> ExtractedImage(i)]
    /\ image_counter' = 0
    /\ table_counter' = 0
    /\ documents' = documents + 1
    /\ UNCHANGED <<pc, error, extracted_links, extracted_tables, segmentation, previous_issues,
                   sink, gui, ai_mode>>

\* text.isupper(): a letter is there and no letter is in lower case.
IsUpper(s) ==
    /\ \E i \in 1..Len(s) : IsAlpha(CharAt(s, i))
    /\ \A i \in 1..Len(s) : CharAt(s, i) \notin DOMAIN ToUpper

\* re.match(r'^\d+\.', text)
MatchesNumbered(text) ==
    \E n \in 1..(Len(text) - 1) :
        /\ \A i \in 1..n : Contains(Digits, CharAt(text, i))
        /\ CharAt(text, n + 1) = "."

\* '-' * 10
Dashes == "----------"

\* classify_paragraph_type, from the name of the paragraph style and the
\* stripped text. The tests run in the order of the code.
classify_paragraph_type(style, text) ==
    LET style_name == Lower(style)
    IN  IF text = "" THEN "empty"
        ELSE IF Contains(style_name, "heading") THEN "heading"
        ELSE IF Contains(style_name, "title") THEN "title"
        ELSE IF Contains(style_name, "subtitle") THEN "subtitle"
        ELSE IF Contains(style_name, "list paragraph") THEN "list_item"
        ELSE IF StartsWithAny(text, {"*", "-", "+"}) THEN "bullet_point"
        ELSE IF MatchesNumbered(text) THEN "numbered_list"
        ELSE IF EndsWith(text, ":") /\ Len(text) < 100 THEN "label"
        ELSE IF Len(text) < 50 /\ IsUpper(text) THEN "section_header"
        ELSE IF StartsWith(text, Dashes) THEN "separator"
        ELSE "text"

\* Paragraphs as the document holds them: the name of the style and the
\* stripped text.
RawParagraphs ==
    { [style |-> "Normal",         text |-> Dashes],
      [style |-> "Normal",         text |-> Dashes \o Dashes],
      [style |-> "Normal",         text |-> "1. Fix the broken mobile menu"],
      [style |-> "Normal",         text |-> "Logo overlaps the sidebar"],
      [style |-> "Normal",         text |-> "NEWS"],
      [style |-> "Normal",         text |-> "Notes:"],
      [style |-> "Heading 1",      text |-> HeadingText],
      [style |-> "List Paragraph", text |-> "Footer links overlap the logo"] }

\* One paragraph of the document body, classified as the loop classifies
\* it.
ExtractClassified(raw) ==
    ExtractParagraphWithin([type       |-> classify_paragraph_type(raw.style, raw.text),
                            text       |-> raw.text,
                            image_runs |-> 0,
                            links      |-> <<>>], MaxBlocks)

\* extract_table_data
TableData(rows, number) ==
    [number         |-> number,
     formatted_text |-> Join([r \in 1..Len(rows) |-> Join(rows[r], " | ")], "\n"),
     structure      |-> [rows |-> Len(rows), cols |-> IF rows = <<>> THEN 0 ELSE Len(rows[1])]]

\* The content block of a table.
TableBlock(data) ==
    [type       |-> "table",
     content    |-> data.formatted_text,
     has_image  |-> FALSE,
     image_ref  |-> "",
     links      |-> <<>>,
     table_data |-> <<data>>]

\* One table of the document body.
ExtractTable(rows) ==
    /\ pc = "extract"
    /\ Len(content_blocks) < MaxBlocks
    /\ table_counter' = table_counter + 1
    /\ extracted_tables' = Append(extracted_tables, TableData(rows, table_counter'))
    /\ content_blocks' = Append(content_blocks, TableBlock(TableData(rows, table_counter')))
    /\ UNCHANGED <<pc, error, extracted_images, image_counter, extracted_links, documents,
                   segmentation, previous_issues, sink, gui, ai_mode>>


(***************************************************************************)
(* categorize_content_intelligently                                        *)
(***************************************************************************)
\* The section a heading names, "" when it names none.
SectionOf(content_lower) ==
    IF ContainsAny(content_lower, {"mobile", "smartphone", "phone"}) THEN "mobile_context"
    ELSE IF ContainsAny(content_lower, {"desktop", "computer", "pc"}) THEN "desktop_context"
    ELSE IF ContainsAny(content_lower, {"homepage", "home page"}) THEN "homepage"
    ELSE IF ContainsAny(content_lower, {"about", "ueber uns"}) THEN "about"
    ELSE IF ContainsAny(content_lower, {"news", "feed", "articles"}) THEN "news"
    ELSE IF ContainsAny(content_lower, {"contact", "kontakt"}) THEN "contact"
    ELSE ""

\* First pass: document_context after the blocks, starting from ctx.
RECURSIVE BuildContext(_, _)
BuildContext(blocks, ctx) ==
    IF blocks = <<>> THEN ctx
    ELSE LET block == Head(blocks)
             lower == Lower(block.content)
             section == SectionOf(lower)
         IN  IF block.type \in HeadingTypes
             THEN BuildContext(Tail(blocks),
                      [headings        |-> Append(ctx.headings, lower),
                       titles          |-> Append(ctx.titles, lower),
                       current_section |-> IF section = "" THEN ctx.current_section
                                           ELSE section])
             ELSE BuildContext(Tail(blocks), ctx)

DocumentContext(blocks) ==
    BuildContext(blocks, [headings |-> <<>>, titles |-> <<>>, current_section |-> "general"])

\* AllContextText that forgets the headings.
AllContextTextForgotten(ctx) == ""

AllContextText(ctx) == Join(ctx.headings \o ctx.titles, " ")

\* The keyword lists of the second pass.
MobileKeywords == {"mobile", "smartphone", "phone", "responsive"}
DesktopKeywords == {"desktop", "computer", "pc", "large screen"}
HomepageKeywords == {"homepage", "home page", "main page", "landing"}
AboutKeywords == {"about", "ueber uns", "about us"}
NewsKeywords == {"news", "feed", "articles", "blog"}
ContactKeywords == {"contact", "kontakt"}
CarouselKeywords == {"carousel", "slider", "slideshow"}
NavigationKeywords == {"navigation", "menu", "nav", "arrows"}
ImagesKeywords == {"image", "picture", "photo", "quality"}
FormsKeywords == {"form", "input", "field"}
LayoutKeywords == {"layout", "display", "positioning", "alignment"}
BugKeywords == {"error", "broken", "not working", "duplicated", "missing"}
ImprovementKeywords == {"improve", "optimize", "better", "enhance"}
FeatureKeywords == {"add", "new", "create", "implement"}

CategoryKeywords ==
    MobileKeywords \cup DesktopKeywords \cup HomepageKeywords \cup AboutKeywords
        \cup NewsKeywords \cup ContactKeywords \cup CarouselKeywords
        \cup NavigationKeywords \cup ImagesKeywords \cup FormsKeywords \cup LayoutKeywords
        \cup BugKeywords \cup ImprovementKeywords \cup FeatureKeywords

\* The keywords of the second pass that occur in s, {kw : kw in s}: the
\* substrings of s of a keyword's length that are keywords.
KeywordsIn(s) ==
    UNION { {SubSeq(s, i, i + n - 1) : i \in 1..(Len(s) - n + 1)} \cap CategoryKeywords :
            n \in {Len(kw) : kw \in CategoryKeywords} }

\* any(keyword in combined_context for keyword in kws), found being the
\* keywords that occur in combined_context.
AnyOf(found, kws) == found \cap kws # {}

\* The bucket of each axis for the keywords found in the combined context,
\* "" when the block goes into no bucket of the axis.
\* DeviceBucket without the fallback group.
DeviceBucketNoFallback(found) ==
    IF AnyOf(found, MobileKeywords) THEN "mobile"
    ELSE IF AnyOf(found, DesktopKeywords) THEN "desktop"
    ELSE ""

DeviceBucket(found) ==
    IF AnyOf(found, MobileKeywords) THEN "mobile"
    ELSE IF AnyOf(found, DesktopKeywords) THEN "desktop"
    ELSE "both"

PageTypeBucket(found, current_section) ==
    IF AnyOf(found, HomepageKeywords) THEN "homepage"
    ELSE IF AnyOf(found, AboutKeywords) THEN "about"
    ELSE IF AnyOf(found, NewsKeywords) THEN "news"
    ELSE IF AnyOf(found, ContactKeywords) THEN "contact"
    ELSE IF current_section \in {"homepage", "about", "news", "contact"} THEN current_section
    ELSE "general"

ComponentBucket(found) ==
    IF AnyOf(found, CarouselKeywords) THEN "carousel"
    ELSE IF AnyOf(found, NavigationKeywords) THEN "navigation"
    ELSE IF AnyOf(found, ImagesKeywords) THEN "images"
    ELSE IF AnyOf(found, FormsKeywords) THEN "forms"
    ELSE IF AnyOf(found, LayoutKeywords) THEN "layout"
    ELSE ""

IssueTypeBucket(found) ==
    IF AnyOf(found, BugKeywords) THEN "bug"
    ELSE IF AnyOf(found, ImprovementKeywords) THEN "improvement"
    ELSE IF AnyOf(found, FeatureKeywords) THEN "feature"
    ELSE "content"

\* categories[axis][bucket].append(block), nothing when bucket is "".
AppendTo(cats, axis, bucket, block) ==
    IF bucket = "" THEN cats
    ELSE [cats EXCEPT ![axis][bucket] = Append(@, block)]

\* Second pass, one block.
CategorizeBlock(cats, block, ctx) ==
    LET combined == Lower(block.content) \o " " \o AllContextText(ctx)
        found == KeywordsIn(combined)
        c1 == AppendTo(cats, "device", DeviceBucket(found), block)
        c2 == AppendTo(c1, "page_type", PageTypeBucket(found, ctx.current_section), block)
        c3 == AppendTo(c2, "component", ComponentBucket(found), block)
    IN  AppendTo(c3, "issue_type", IssueTypeBucket(found), block)

RECURSIVE CategorizeAll(_, _, _)
CategorizeAll(cats, blocks, ctx) ==
    IF blocks = <<>> THEN cats
    ELSE CategorizeAll(CategorizeBlock(cats, Head(blocks), ctx), Tail(blocks), ctx)

\* categorize_content_intelligently in one pass: every block is filed with
\* the context of the headings read up to it.
RECURSIVE CategorizeAsRead(_, _, _)
CategorizeAsRead(cats, blocks, k) ==
    IF k > Len(blocks) THEN cats
    ELSE CategorizeAsRead(
             CategorizeBlock(cats, blocks[k], DocumentContext(SubSeq(blocks, 1, k))),
             blocks, k + 1)

categorize_as_read(blocks) == CategorizeAsRead(EmptyCategories, blocks, 1)

categorize_content_intelligently(blocks) ==
    CategorizeAll(EmptyCategories, blocks, DocumentContext(blocks))

(***************************************************************************)
(* get_block_categories                                                    *)
(***************************************************************************)
\* The axes and their groups in the order the dictionaries hold them.
Axes == <<"device", "page_type", "component", "issue_type">>

Groups(axis) ==
    CASE axis = "device"     -> <<"mobile", "desktop", "both">>
      [] axis = "page_type"  -> <<"homepage", "about", "news", "contact", "general">>
      [] axis = "component"  -> <<"carousel", "navigation", "images", "forms", "layout">>
      [] axis = "issue_type" -> <<"bug", "improvement", "feature", "content">>

\* block in blocks
InList(block, blocks) == \E k \in 1..Len(blocks) : blocks[k] = block

\* The (axis, group) pairs of a block in axis order: for each axis the first
\* group whose list holds a block equal to it, no pair when none does.
RECURSIVE BlockCategoriesFrom(_, _, _)
BlockCategoriesFrom(block, cats, axes) ==
    IF axes = <<>> THEN <<>>
    ELSE LET axis == Head(axes)
             holding == {g \in 1..Len(Groups(axis)) : InList(block, cats[axis][Groups(axis)[g]])}
             first == CHOOSE g \in holding : \A h \in holding : g <= h
         IN  (IF holding = {} THEN <<>>
              ELSE << [type |-> axis, value |-> Groups(axis)[first]] >>)
                 \o BlockCategoriesFrom(block, cats, Tail(axes))

get_block_categories(block, cats) == BlockCategoriesFrom(block, cats, Axes)

(***************************************************************************)
(* finalize_issue                                                          *)
(***************************************************************************)
ClassificationSection(cats) ==
    IF cats = <<>> THEN <<>>
    ELSE <<"\n## **Issue Classification:**">>
         \o [k \in 1..Len(cats) |->
                "- **" \o Title(cats[k].type) \o "**: " \o Title(cats[k].value)]

RECURSIVE TableLines(_, _)
TableLines(tables, k) ==
    IF k > Len(tables) THEN <<>>
    ELSE << "\n### Table " \o ToStr(k) \o " (" \o ToStr(tables[k].structure.rows) \o "x"
                \o ToStr(tables[k].structure.cols) \o "):",
            "~~~\n" \o tables[k].formatted_text \o "\n~~~" >>
         \o TableLines(tables, k + 1)

TablesSection(tables) ==
    IF tables = <<>> THEN <<>>
    ELSE <<"\n## **Tables:**">> \o TableLines(tables, 1)

\* The glyph of a link type, written as a word.
LinkGlyph(type) ==
    CASE type = "video"    -> ":video:"
      [] type = "document" -> ":document:"
      [] type = "image"    -> ":image:"
      [] type = "external" -> ":external:"
      [] OTHER             -> ":link:"

LinksSection(links) ==
    IF links = <<>> THEN <<>>
    ELSE <<"\n## **Related Links:**">>
         \o [k \in 1..Len(links) |->
                "- " \o LinkGlyph(links[k].type) \o " [" \o links[k].text \o "]("
                    \o links[k].url \o ") (" \o links[k].type \o ")"]

ImagesSection(images) ==
    IF images = <<>> THEN <<>>
    ELSE <<"\n## **Attached Images:**">>
         \o [k \in 1..Len(images) |->
                "- " \o images[k].filename \o " (" \o ToStrCommas(images[k].size) \o " bytes)"]

\* any(keyword in ai_task['title'].lower() for keyword in title.lower().split()[:3])
InsightMatches(task, title) ==
    LET keywords == Take(Split(Lower(title)), TitleKeywords)
    IN  \E k \in 1..Len(keywords) : Contains(Lower(task.title), keywords[k])

\* AiSection that writes a section for every insight that matches.
AiSectionEvery(title, insights) ==
    IF insights = <<>> \/ insights[1] = <<>> THEN <<>>
    ELSE LET tasks == insights[1]
             SectionsFrom[k \in 1..(Len(tasks) + 1)] ==
                 IF k > Len(tasks) THEN <<>>
                 ELSE (IF InsightMatches(tasks[k], title)
                       THEN << "\n## **AI Analysis:**",
                               "- **Priority**: " \o tasks[k].priority,
                               "- **Complexity**: " \o tasks[k].complexity,
                               "- **Category**: " \o tasks[k].category >>
                       ELSE <<>>) \o SectionsFrom[k + 1]
         IN  SectionsFrom[1]

AiSection(title, insights) ==
    IF insights = <<>> \/ insights[1] = <<>> THEN <<>>
    ELSE LET tasks == insights[1]
             matching == {k \in 1..Len(tasks) : InsightMatches(tasks[k], title)}
             first == CHOOSE k \in matching : \A j \in matching : k <= j
         IN  IF matching = {} THEN <<>>
             ELSE << "\n## **AI Analysis:**",
                     "- **Priority**: " \o tasks[first].priority,
                     "- **Complexity**: " \o tasks[first].complexity,
                     "- **Category**: " \o tasks[first].category >>

finalize_issue(issue_data, insights) ==
    [title          |-> issue_data.title,
     description    |-> Join(issue_data.description_parts
                             \o ClassificationSection(issue_data.categories)
                             \o TablesSection(issue_data.tables)
                             \o LinksSection(issue_data.links)
                             \o ImagesSection(issue_data.images)
                             \o AiSection(issue_data.title, insights), "\n"),
     images         |-> issue_data.images,
     links          |-> issue_data.links,
     tables         |-> issue_data.tables,
     categories     |-> issue_data.categories,
     content_blocks |-> Len(issue_data.content_blocks)]

(***************************************************************************)
(* create_comprehensive_issues                                             *)
(***************************************************************************)
\* ai_insights after the head of the function: None when the LLM is not
\* available, None when the call raises (the exception is caught and
\* reported), the tasks when it returns.
\* AiInsights that keeps tasks when the call raises.
AiInsightsKept(outcome) ==
    IF outcome = "unavailable" THEN <<>> ELSE <<AiTasks>>

AiInsights(outcome) ==
    CASE outcome = "unavailable" -> <<>>
      [] outcome = "raises"      -> <<>>
      [] outcome = "returns"     -> <<AiTasks>>

\* The head of the function: the LLM is asked when it is available, the
\* blocks are categorized and the loop state is set up.
StartIssues ==
    /\ pc = "extract"
    /\ content_blocks # <<>>
    /\ pc' = "loop"
    /\ categories' = categorize_content_intelligently(content_blocks)
    /\ \E outcome \in AiOutcomes :
          /\ ai_outcome' = outcome
          /\ ai_insights' = AiInsights(outcome)
    /\ issues' = <<>>
    /\ current_issue' = <<>>
    /\ pos' = 1
    /\ UNCHANGED <<error, extraction, previous_issues, sink, gui, ai_mode>>

InLoop == pc = "loop" /\ pos <= Len(content_blocks)

\* The block the loop stands at.
Block == content_blocks[pos]

\* IsContextLabel that takes no text for a label.
IsContextLabelNever(content) == FALSE

\* Labels and context: too short, or one of the boilerplate labels.
IsContextLabel(content) ==
    \/ Len(content) < ShortLen
    \/ EndsWith(content, "| Homecare")
    \/ StartsWith(content, "Patient:")
    \/ StartsWith(content, "Fachkraefte")
    \/ content \in {"Austria | Homecare", "Patient:innen | Homecare", "Fachkraefte | Homecare"}

ActionKeywords ==
    {"fix the", "resolve the", "update the", "correct the", "improve the", "implement",
     "display", "optimal", "space", "cut off", "jump"}

\* is_new_issue without the rule for numbered list items.
is_new_issue_unnumbered(block, current) ==
    \/ (block.type = "list_item" /\ Len(block.content) > ListItemMin)
    \/ /\ Len(block.content) > HeuristicMin
       /\ ~StartsWithAny(block.content, {"*", "-", "+"})
       /\ ContainsAny(Lower(block.content), ActionKeywords)
       /\ (current = <<>> \/ Len(current[1].description_parts) > OpenPartsMax)

\* is_new_issue that splits on an action keyword whatever issue is open.
is_new_issue_eager(block, current) ==
    \/ block.type = "numbered_list"
    \/ (block.type = "list_item" /\ Len(block.content) > ListItemMin)
    \/ /\ Len(block.content) > HeuristicMin
       /\ ~StartsWithAny(block.content, {"*", "-", "+"})
       /\ ContainsAny(Lower(block.content), ActionKeywords)

is_new_issue(block, current) ==
    \/ block.type = "numbered_list"
    \/ (block.type = "list_item" /\ Len(block.content) > ListItemMin)
    \/ /\ Len(block.content) > HeuristicMin
       /\ ~StartsWithAny(block.content, {"*", "-", "+"})
       /\ ContainsAny(Lower(block.content), ActionKeywords)
       /\ (current = <<>> \/ Len(current[1].description_parts) > OpenPartsMax)

\* content[:100] + ('...' if len(content) > 100 else '')
IssueTitle(content) ==
    Take(content, TitleMax) \o (IF Len(content) > TitleMax THEN "..." ELSE "")

NewIssue(block, cats) ==
    [title             |-> IssueTitle(block.content),
     description_parts |-> <<block.content>>,
     images            |-> <<>>,
     links             |-> <<>>,
     tables            |-> <<>>,
     content_blocks    |-> <<block>>,
     categories        |-> get_block_categories(block, cats)]

\* WithText that keeps the block and loses its text.
WithTextLost(issue, block) ==
    [issue EXCEPT !.content_blocks = Append(@, block)]

\* The text of a block appended to an issue.
WithText(issue, block) ==
    [issue EXCEPT !.description_parts = Append(@, block.content),
                  !.content_blocks = Append(@, block)]

\* int(image_ref.split('_')[1]) if '_' in image_ref else 0
ImageNum(image_ref) ==
    IF Contains(image_ref, "_") THEN ToInt(SplitOn(image_ref, "_")[2]) ELSE 0

\* WithArtifacts that leaves the links of the block behind.
WithArtifactsNoLinks(issue, block, images) ==
    LET num == ImageNum(block.image_ref)
        i1 == IF block.has_image /\ block.image_ref # "" /\ num > 0 /\ num <= Len(images)
              THEN [issue EXCEPT !.images = Append(@, images[num])]
              ELSE issue
    IN  IF block.table_data # <<>>
        THEN [i1 EXCEPT !.tables = Append(@, block.table_data[1])]
        ELSE i1

\* WithArtifacts that takes the last picture of the registry for an
\* ordinal beyond it.
WithArtifactsClamped(issue, block, images) ==
    LET num == ImageNum(block.image_ref)
        i1 == IF block.has_image /\ block.image_ref # "" /\ num > 0 /\ images # <<>>
              THEN [issue EXCEPT !.images = Append(@, images[IF num <= Len(images) THEN num
                                                                ELSE Len(images)])]
              ELSE issue
        i2 == IF block.links # <<>> THEN [i1 EXCEPT !.links = @ \o block.links] ELSE i1
    IN  IF block.table_data # <<>>
        THEN [i2 EXCEPT !.tables = Append(@, block.table_data[1])]
        ELSE i2

\* The image, the links and the table of a block added to an issue.
WithArtifacts(issue, block, images) ==
    LET num == ImageNum(block.image_ref)
        i1 == IF block.has_image /\ block.image_ref # "" /\ num > 0 /\ num <= Len(images)
              THEN [issue EXCEPT !.images = Append(@, images[num])]
              ELSE issue
        i2 == IF block.links # <<>> THEN [i1 EXCEPT !.links = @ \o block.links] ELSE i1
    IN  IF block.table_data # <<>>
        THEN [i2 EXCEPT !.tables = Append(@, block.table_data[1])]
        ELSE i2

\* Branch that takes a separator for a label.
BranchNoSeparator(block) ==
    IF IsBlank(block.content) THEN "empty"
    ELSE IF block.type \in HeadingTypes THEN "heading"
    ELSE IF block.type = "separator" \/ IsContextLabel(block.content) THEN "label"
    ELSE "content"

\* Branch without the test for short texts and labels.
BranchNoLabel(block) ==
    IF IsBlank(block.content) THEN "empty"
    ELSE IF block.type \in HeadingTypes THEN "heading"
    ELSE IF block.type = "separator" THEN "separator"
    ELSE "content"

\* Branch that treats headings like any other text.
BranchHeadingAsText(block) ==
    IF IsBlank(block.content) THEN "empty"
    ELSE IF block.type = "separator" THEN "separator"
    ELSE IF IsContextLabel(block.content) THEN "label"
    ELSE "content"

\* The branch of the loop body a block takes.
Branch(block) ==
    IF IsBlank(block.content) THEN "empty"
    ELSE IF block.type \in HeadingTypes THEN "heading"
    ELSE IF block.type = "separator" THEN "separator"
    ELSE IF IsContextLabel(block.content) THEN "label"
    ELSE "content"

\* One pass of the loop body over a block: the issue list and the open
\* issue after it.
LoopBody(iss, current, block, cats, insights, images) ==
    LET branch == Branch(block)
        opens == is_new_issue(block, current) \/ current = <<>>
        target == IF opens THEN NewIssue(block, cats) ELSE WithText(current[1], block)
    IN  CASE branch = "empty" ->
               [issues |-> iss, current_issue |-> current]
          [] branch \in {"heading", "label"} ->
               [issues |-> iss,
                current_issue |-> IF current # <<>> THEN <<WithText(current[1], block)>>
                                  ELSE current]
          [] branch = "separator" ->
               [issues |-> IF current # <<>>
                           THEN Append(iss, finalize_issue(current[1], insights))
                           ELSE iss,
                current_issue |-> <<>>]
          [] branch = "content" ->
               [issues |-> IF opens /\ current # <<>>
                           THEN Append(iss, finalize_issue(current[1], insights))
                           ELSE iss,
                current_issue |-> <<WithArtifacts(target, block, images)>>]

\* The loop passes over the block it stands at.
Step ==
    /\ LET after == LoopBody(issues, current_issue, Block, categories, ai_insights,
                             extracted_images)
       IN  /\ issues' = after.issues
           /\ current_issue' = after.current_issue
    /\ pos' = pos + 1
    /\ UNCHANGED <<pc, error, extraction, ai_outcome, ai_insights, categories,
                   previous_issues, sink, gui, ai_mode>>

\* Empty content is skipped.
SkipEmpty == InLoop /\ Branch(Block) = "empty" /\ Step

\* A heading, title or section header is context of the open issue.
HeadingContext == InLoop /\ Branch(Block) = "heading" /\ Step

\* A separator closes the open issue.
SeparatorBoundary == InLoop /\ Branch(Block) = "separator" /\ Step

\* A short text or a label is context of the open issue.
LabelContext == InLoop /\ Branch(Block) = "label" /\ Step

\* Any other block opens an issue or goes into the open one, and its
\* image, links and table go with it.
ContentBlock == InLoop /\ Branch(Block) = "content" /\ Step

\* FinalizeOpen that leaves the last issue open.
FinalizeOpenDropped(iss, current, insights) == iss

\* FinalizeOpen that writes the last issue over the one pushed before it.
FinalizeOpenOverLast(iss, current, insights) ==
    IF current = <<>> THEN iss
    ELSE IF iss = <<>> THEN <<finalize_issue(current[1], insights)>>
    ELSE [iss EXCEPT ![Len(iss)] = finalize_issue(current[1], insights)]

\* After the loop the last issue is finalized.
FinalizeOpen(iss, current, insights) ==
    IF current # <<>> THEN Append(iss, finalize_issue(current[1], insights)) ELSE iss

FinalizeLast ==
    /\ pc = "loop"
    /\ pos > Len(content_blocks)
    /\ issues' = FinalizeOpen(issues, current_issue, ai_insights)
    /\ pc' = "distribute"
    /\ UNCHANGED <<error, extraction, ai_outcome, ai_insights, categories, current_issue, pos,
                   previous_issues, sink, gui, ai_mode>>

\* The filenames the issues hold.
LinkedImages(iss) ==
    UNION { {iss[k].images[j].filename : j \in 1..Len(iss[k].images)} : k \in 1..Len(iss) }

\* UnlinkedImages that takes every extracted image for a leftover.
UnlinkedImagesAll(images, iss) == images

\* UnlinkedImages that remembers the linked filenames of earlier calls.
UnlinkedImagesRemembered(images, iss) ==
    LET earlier == UNION {LinkedImages(previous_issues[r]) : r \in 1..Len(previous_issues)}
    IN  SelectSeq(images, LAMBDA img : img.filename \notin (LinkedImages(iss) \cup earlier))

\* The extracted images no issue holds, in extraction order.
UnlinkedImages(images, iss) ==
    SelectSeq(images, LAMBDA img : img.filename \notin LinkedImages(iss))

\* DistributeFrom that hands every leftover image to the first issue.
DistributeToFirst(iss, unlinked, i) ==
    IF iss = <<>> THEN iss ELSE [iss EXCEPT ![1].images = @ \o unlinked]

\* issues[i % len(issues)]['images'].append(img) for the unlinked images
\* from the i-th on, i counting from 0.
RECURSIVE DistributeFrom(_, _, _)
DistributeFrom(iss, unlinked, i) ==
    IF i >= Len(unlinked) THEN iss
    ELSE DistributeFrom(
             [iss EXCEPT ![(i % Len(iss)) + 1].images = Append(@, unlinked[i + 1])],
             unlinked, i + 1)

\* The leftover images are distributed and the issues are returned; with
\* leftover images and no issue, i % len(issues) divides by zero.
DistributeImages ==
    /\ pc = "distribute"
    /\ LET unlinked == UnlinkedImages(extracted_images, issues)
       IN  IF unlinked # <<>> /\ issues = <<>>
           THEN /\ pc' = "error"
                /\ error' = "ZeroDivisionError"
                /\ UNCHANGED issues
           ELSE /\ pc' = "returned"
                /\ issues' = DistributeFrom(issues, unlinked, 0)
                /\ UNCHANGED error
    /\ UNCHANGED <<extraction, ai_outcome, ai_insights, categories, current_issue, pos,
                   previous_issues, sink, gui, ai_mode>>

\* create_comprehensive_issues is called again on the same analyzer with
\* the same blocks, the LLM answering as before.
CallAgain ==
    /\ pc = "returned"
    /\ Len(previous_issues) < MaxRuns - 1
    /\ previous_issues' = Append(previous_issues, issues)
    /\ pc' = "loop"
    /\ categories' = categorize_content_intelligently(content_blocks)
    /\ ai_insights' = AiInsights(ai_outcome)
    /\ issues' = <<>>
    /\ current_issue' = <<>>
    /\ pos' = 1
    /\ UNCHANGED <<error, extraction, ai_outcome, sink, gui, ai_mode>>

\* The loop over the blocks from the k-th on.
RECURSIVE LoopFrom(_, _, _, _, _, _, _)
LoopFrom(iss, current, blocks, k, cats, insights, images) ==
    IF k > Len(blocks) THEN [issues |-> iss, current_issue |-> current]
    ELSE LET after == LoopBody(iss, current, blocks[k], cats, insights, images)
         IN  LoopFrom(after.issues, after.current_issue, blocks, k + 1, cats, insights,
                      images)

\* What a call of create_comprehensive_issues ends in: the issues it
\* returns, or the exception it raises.
create_comprehensive_issues(blocks, images, insights) ==
    LET cats == categorize_content_intelligently(blocks)
        last == LoopFrom(<<>>, <<>>, blocks, 1, cats, insights, images)
        iss == FinalizeOpen(last.issues, last.current_issue, insights)
        unlinked == UnlinkedImages(images, iss)
    IN  IF unlinked # <<>> /\ iss = <<>>
        THEN [error |-> "ZeroDivisionError", issues |-> <<>>]
        ELSE [error |-> "", issues |-> DistributeFrom(iss, unlinked, 0)]

(***************************************************************************)
(* analyze_document_comprehensively                                        *)
(***************************************************************************)
\* No content block was extracted.
NoContent ==
    /\ pc = "extract"
    /\ content_blocks = <<>>
    /\ pc' = "error"
    /\ error' = "No content found in document"
    /\ UNCHANGED <<extraction, segmentation, previous_issues, sink, gui, ai_mode>>

\* ReturnIssues that hands over whatever list there is.
ReturnIssuesAlways ==
    /\ pc = "returned"
    /\ pc' = "done"
    /\ UNCHANGED <<error, extraction, segmentation, previous_issues, sink, gui, ai_mode>>

\* The issues are handed to the caller, unless there is none.
ReturnIssues ==
    /\ pc = "returned"
    /\ IF issues = <<>>
       THEN pc' = "error" /\ error' = "No issues could be created from document content"
       ELSE pc' = "done" /\ UNCHANGED error
    /\ UNCHANGED <<extraction, segmentation, previous_issues, sink, gui, ai_mode>>

Next ==
    \/ \E n \in 0..MaxImages : StartExtraction(n)
    \/ \E p \in Paragraphs : ExtractParagraph(p)
    \/ \E t \in Tables : ExtractTable(t)
    \/ NoContent
    \/ StartIssues
    \/ SkipEmpty
    \/ HeadingContext
    \/ SeparatorBoundary
    \/ LabelContext
    \/ ContentBlock
    \/ FinalizeLast
    \/ DistributeImages
    \/ ReturnIssues

Spec == Init /\ [][Next]_vars

\* Long narratives of few kinds of paragraphs, segmented up to MaxRuns times.
NextLong ==
    \/ \E n \in 0..MaxImages : StartExtraction(n)
    \/ \E p \in NarrativeParagraphs : ExtractParagraphWithin(p, MaxNarrative)
    \/ NoContent
    \/ StartIssues
    \/ ContentBlock
    \/ FinalizeLast
    \/ DistributeImages
    \/ CallAgain
    \/ ReturnIssues

SpecLong == Init /\ [][NextLong]_vars

\* Documents of hyperlinks and tables, extracted one after another by the
\* same analyzer.
NextDocuments ==
    \/ StartExtraction(MaxImages)
    \/ \E u \in Urls : ExtractHyperlink(u)
    \/ \E t \in Tables : ExtractTable(t)
    \/ \E n \in {0, MaxImages} : ExtractAgain(n)

SpecDocuments == Init /\ [][NextDocuments]_vars

(***************************************************************************)
(* create_jira_tickets_with_type                                           *)
(***************************************************************************)
\* The arguments that stay the same in every call.
Server == "https://jira.example.com"
ProjectKey == "WEB"
IssueType == "Task"

\* The issue lists handed over: what create_comprehensive_issues returns
\* for a document of one issue, for one of two issues with two pictures
\* and a link, and for one of three issues.
TicketInputs ==
    LET menu == ParagraphBlock([type |-> "numbered_list", text |-> "1. Fix the broken mobile menu",
                                image_runs |-> 0, links |-> <<DemoLink>>], 0)
        shot == ParagraphBlock([type |-> "text", text |-> "Header image looks blurry",
                                image_runs |-> 1, links |-> <<SpecLink>>], 1)
        form == ParagraphBlock([type |-> "numbered_list", text |-> LongText,
                                image_runs |-> 0, links |-> <<>>], 1)
        foot == ParagraphBlock([type |-> "text", text |-> ActionText,
                                image_runs |-> 0, links |-> <<>>], 1)
        pics == [i \in 1..MaxImages |-> ExtractedImage(i)]
    IN  { create_comprehensive_issues(<<menu>>, <<>>, <<>>).issues,
          create_comprehensive_issues(<<menu, shot, form>>, pics, <<>>).issues,
          create_comprehensive_issues(<<foot, menu, form>>, <<>>, <<AiTasks>>).issues }

\* status_name: None, a status some workflows offer (in another case),
\* and one no workflow offers.
StatusNames == {"", "in progress", "Review"}

\* What the connection and project checks end in: the project is found,
\* it cannot be verified and the function continues, it does not exist,
\* or no connection can be made.
CheckOutcomes == {"found", "unverified", "not_found", "no_connection"}

\* The transitions the server offers for a new ticket.
Workflows ==
    { <<>>,
      << [id |-> "11", name |-> "In Progress"], [id |-> "21", name |-> "Done"] >>,
      << [id |-> "31", name |-> "To Do"], [id |-> "11", name |-> "In Progress"] >> }

\* What jira.transitions does: it raises, or it returns a list.
LookupOutcomes ==
    {[raises |-> TRUE, transitions |-> <<>>]}
        \cup {[raises |-> FALSE, transitions |-> w] : w \in Workflows}

\* The id of the first transition with the name, "" for None.
FirstId(transitions, hits) ==
    IF hits = {} THEN ""
    ELSE transitions[CHOOSE k \in hits : \A j \in hits : k <= j].id

\* transition['name'].lower() == status_name.lower()
TargetTransition(transitions, name) ==
    FirstId(transitions,
            {k \in 1..Len(transitions) : Lower(transitions[k].name) = Lower(name)})

\* any(keyword in transition_name for keyword in ['to do', 'todo', 'open', 'new'])
TodoTransition(transitions) ==
    FirstId(transitions,
            {k \in 1..Len(transitions) :
                ContainsAny(Lower(transitions[k].name), {"to do", "todo", "open", "new"})})

\* FinalStatus that records the requested status whatever happened.
FinalStatusRequested(name, lookup, moved) ==
    IF name # "" THEN name ELSE "Default"

\* final_status: the status the ticket is recorded with, from what the
\* lookup returned and whether transition_issue went through.
FinalStatus(name, lookup, moved) ==
    IF name # ""
    THEN IF lookup.raises THEN "Default (To Do)"
         ELSE IF TargetTransition(lookup.transitions, name) # ""
              THEN IF moved THEN name ELSE "Default (To Do)"
              ELSE "Default (To Do)"
    ELSE IF lookup.raises THEN "Default"
         ELSE IF TodoTransition(lookup.transitions) # ""
              THEN IF moved THEN "To Do" ELSE "Default"
              ELSE "Default"

\* The key the server gives the next ticket.
ServerKey == ProjectKey \o "-" \o ToStr(Len(created_tickets) + 1)

\* ticket_info
TicketInfo(issue, key, images_attached, final_status) ==
    [key    |-> key,
     title  |-> issue.title,
     type   |-> IssueType,
     epic   |-> "",
     status |-> final_status,
     images |-> images_attached,
     url    |-> Server \o "/browse/" \o key]

\* The function is called: the checks pass and the loop starts, or they
\* fail and the empty list is returned.
CallCreateTickets(input, name, check) ==
    /\ pc = "idle"
    /\ issues' = input
    /\ status_name' = name
    /\ created_tickets' = <<>>
    /\ ticket_details' = <<>>
    /\ IF check \in {"found", "unverified"}
       THEN pc' = "tickets" /\ ticket_index' = 1
       ELSE pc' = "tickets_returned" /\ ticket_index' = 0
    /\ UNCHANGED <<error, extraction, ai_outcome, ai_insights, categories, current_issue, pos,
                   previous_issues, jira_calls, gui, ai_mode>>

\* CreateTicket that leaves the loop when create_issue raises.
CreateTicketOrStop(created, attached, lookup, moved) ==
    /\ pc = "tickets"
    /\ ticket_index <= Len(issues)
    /\ attached \subseteq 1..Len(issues[ticket_index].images)
    /\ LET issue == issues[ticket_index]
           called == IF status_name # ""
                     THEN ~lookup.raises /\ TargetTransition(lookup.transitions, status_name) # ""
                     ELSE ~lookup.raises /\ TodoTransition(lookup.transitions) # ""
       IN  IF created
           THEN /\ created_tickets' = Append(created_tickets, ServerKey)
                /\ ticket_details' =
                      Append(ticket_details,
                             TicketInfo(issue, ServerKey, Cardinality(attached),
                                        FinalStatus(status_name, lookup, moved)))
                /\ jira_calls' =
                      Append(jira_calls,
                             [summary |-> issue.title, key |-> ServerKey, attached |-> attached,
                              lookup |-> lookup, moved |-> called /\ moved])
                /\ ticket_index' = ticket_index + 1
           ELSE /\ jira_calls' =
                      Append(jira_calls,
                             [summary |-> issue.title, key |-> "", attached |-> {},
                              lookup |-> [raises |-> TRUE, transitions |-> <<>>],
                              moved |-> FALSE])
                /\ ticket_index' = Len(issues) + 1
                /\ UNCHANGED <<created_tickets, ticket_details>>
    /\ UNCHANGED <<pc, error, extraction, segmentation, previous_issues, status_name, gui, ai_mode>>

\* One round of the loop. create_issue raises (the round ends with the
\* report of the failure) or returns the new ticket; then every picture
\* of the issue is attached, the attachment going through for the
\* pictures in attached and raising for the others; then the transitions
\* are looked up and the ticket is moved, where moved says whether
\* transition_issue goes through; at last the key and the details are
\* recorded.
CreateTicket(created, attached, lookup, moved) ==
    /\ pc = "tickets"
    /\ ticket_index <= Len(issues)
    /\ attached \subseteq 1..Len(issues[ticket_index].images)
    /\ LET issue == issues[ticket_index]
           called == IF status_name # ""
                     THEN ~lookup.raises /\ TargetTransition(lookup.transitions, status_name) # ""
                     ELSE ~lookup.raises /\ TodoTransition(lookup.transitions) # ""
       IN  IF created
           THEN /\ created_tickets' = Append(created_tickets, ServerKey)
                /\ ticket_details' =
                      Append(ticket_details,
                             TicketInfo(issue, ServerKey, Cardinality(attached),
                                        FinalStatus(status_name, lookup, moved)))
                /\ jira_calls' =
                      Append(jira_calls,
                             [summary |-> issue.title, key |-> ServerKey, attached |-> attached,
                              lookup |-> lookup, moved |-> called /\ moved])
           ELSE /\ jira_calls' =
                      Append(jira_calls,
                             [summary |-> issue.title, key |-> "", attached |-> {},
                              lookup |-> [raises |-> TRUE, transitions |-> <<>>],
                              moved |-> FALSE])
                /\ UNCHANGED <<created_tickets, ticket_details>>
    /\ ticket_index' = ticket_index + 1
    /\ UNCHANGED <<pc, error, extraction, segmentation, previous_issues, status_name, gui, ai_mode>>

\* return created_tickets
ReturnTickets ==
    /\ pc = "tickets"
    /\ ticket_index > Len(issues)
    /\ pc' = "tickets_returned"
    /\ UNCHANGED <<error, extraction, segmentation, previous_issues, sink, gui, ai_mode>>

NextJira ==
    \/ \E input \in TicketInputs, name \in StatusNames, check \in CheckOutcomes :
          CallCreateTickets(input, name, check)
    \/ \E created \in BOOLEAN, attached \in SUBSET (1..MaxImages),
          lookup \in LookupOutcomes, moved \in BOOLEAN :
          CreateTicket(created, attached, lookup, moved)
    \/ ReturnTickets

SpecJira == Init /\ [][NextJira]_vars

\* Documents whose paragraphs the classifier labels, segmented. The
\* classified stream holds no empty and no separator element.
NextClassified ==
    \/ StartExtraction(0)
    \/ \E raw \in RawParagraphs : ExtractClassified(raw)
    \/ NoContent
    \/ StartIssues
    \/ HeadingContext
    \/ LabelContext
    \/ ContentBlock
    \/ FinalizeLast
    \/ DistributeImages
    \/ ReturnIssues

SpecClassified == Init /\ [][NextClassified]_vars

(***************************************************************************)
(* JiraApp: the buttons and the threads of run_creation_logic              *)
(***************************************************************************)
\* update_create_button_text: nothing without check boxes, disabled when
\* no box is checked, normal otherwise.
ButtonFor(boxes, button) ==
    IF boxes = <<>> THEN button
    ELSE IF \A i \in 1..Len(boxes) : ~boxes[i] THEN "disabled"
    ELSE "normal"

\* A thread of run_creation_logic is between its first and its last
\* statement.
Active(w) == workers[w] # "finished"

\* preview_tickets, on the main thread: the document is parsed into n
\* issues; with none the create button is disabled, otherwise a checked
\* box is made for every issue and the create button follows the boxes.
PreviewTickets(n) ==
    /\ preview_button = "normal"
    /\ IF n = 0
       THEN /\ create_button' = "disabled"
            /\ UNCHANGED ticket_selection_vars
       ELSE /\ ticket_selection_vars' = [i \in 1..n |-> TRUE]
            /\ create_button' = ButtonFor(ticket_selection_vars', create_button)
    /\ preview_button' = "normal"
    /\ UNCHANGED <<pc, error, extraction, segmentation, previous_issues, sink, ai_mode, stdout, workers>>

\* A check box is clicked; its command is update_create_button_text.
ToggleTicket(i) ==
    /\ i \in 1..Len(ticket_selection_vars)
    /\ ticket_selection_vars' = [ticket_selection_vars EXCEPT ![i] = ~@]
    /\ create_button' = ButtonFor(ticket_selection_vars', create_button)
    /\ UNCHANGED <<pc, error, extraction, segmentation, previous_issues, sink, ai_mode, preview_button,
                   stdout, workers>>

\* start_ticket_creation, on the main thread: the create button is
\* clicked; when the fields are filled, a ticket is selected and the user
\* confirms, a thread of run_creation_logic is started.
StartTicketCreation(confirmed) ==
    /\ create_button = "normal"
    /\ Len(workers) < MaxWorkers
    /\ workers' = IF confirmed /\ (\E i \in 1..Len(ticket_selection_vars) :
                                      ticket_selection_vars[i])
                  THEN Append(workers, "started")
                  ELSE workers
    /\ UNCHANGED <<pc, error, extraction, segmentation, previous_issues, sink, ai_mode, create_button,
                   preview_button, ticket_selection_vars, stdout>>

\* The first statements of run_creation_logic: both buttons are disabled.
DisableButtons(w) ==
    /\ w \in 1..Len(workers)
    /\ workers[w] = "started"
    /\ create_button' = "disabled"
    /\ preview_button' = "disabled"
    /\ workers' = [workers EXCEPT ![w] = "logging"]
    /\ UNCHANGED <<pc, error, extraction, segmentation, previous_issues, sink, ai_mode,
                   ticket_selection_vars, stdout>>

\* sys.stdout = self
RedirectStdout(w) ==
    /\ w \in 1..Len(workers)
    /\ workers[w] = "logging"
    /\ stdout' = "gui"
    /\ workers' = [workers EXCEPT ![w] = "creating"]
    /\ UNCHANGED <<pc, error, extraction, segmentation, previous_issues, sink, ai_mode, create_button,
                   preview_button, ticket_selection_vars>>

\* create_jira_tickets_with_type returns or raises, and the outcome is
\* reported.
CreationEnds(w) ==
    /\ w \in 1..Len(workers)
    /\ workers[w] = "creating"
    /\ workers' = [workers EXCEPT ![w] = "finally"]
    /\ UNCHANGED <<pc, error, extraction, segmentation, previous_issues, sink, ai_mode, create_button,
                   preview_button, ticket_selection_vars, stdout>>

\* The finally block: stdout is restored, the create button follows the
\* check boxes, the preview button is enabled.
RestoreAndEnable(w) ==
    /\ w \in 1..Len(workers)
    /\ workers[w] = "finally"
    /\ stdout' = "console"
    /\ create_button' = ButtonFor(ticket_selection_vars, create_button)
    /\ preview_button' = "normal"
    /\ workers' = [workers EXCEPT ![w] = "finished"]
    /\ UNCHANGED <<pc, error, extraction, segmentation, previous_issues, sink, ai_mode,
                   ticket_selection_vars>>

NextGui ==
    \/ \E n \in 0..MaxTickets : PreviewTickets(n)
    \/ \E i \in 1..MaxTickets : ToggleTicket(i)
    \/ \E confirmed \in BOOLEAN : StartTicketCreation(confirmed)
    \/ \E w \in 1..MaxWorkers : DisableButtons(w)
    \/ \E w \in 1..MaxWorkers : RedirectStdout(w)
    \/ \E w \in 1..MaxWorkers : CreationEnds(w)
    \/ \E w \in 1..MaxWorkers : RestoreAndEnable(w)

SpecGui == Init /\ [][NextGui]_vars

(***************************************************************************)
(* AI-powered mode: get_ai_enhanced_issues                                 *)
(***************************************************************************)
\* seq[start:end] for 0 <= start <= end, the indices counting from 0.
Slice(seq, start, end) ==
    SubSeq(seq, start + 1, IF Len(seq) < end THEN Len(seq) ELSE end)

\* The i-th task the LLM returns, i counting from 0.
AiTask(i) ==
    [title       |-> "Task " \o ToStr(i + 1),
     description |-> "Fix item " \o ToStr(i + 1),
     priority    |-> IF i % 2 = 0 THEN "High" ELSE "Low",
     complexity  |-> "Simple",
     category    |-> "Bug"]

\* The slice without the images left over by the division.
TaskImagesEvenOnly(images, tasks, i) ==
    IF images = <<>> THEN <<>>
    ELSE LET images_per_task == Len(images) \div Len(tasks)
         IN  Slice(images, i * images_per_task, i * images_per_task + images_per_task)

\* task_images of the task at index i, i counting from 0.
TaskImages(images, tasks, i) ==
    IF images = <<>> THEN <<>>
    ELSE LET images_per_task  == Len(images) \div Len(tasks)
             remaining_images == Len(images) % Len(tasks)
             start_idx        == i * images_per_task
             end_idx          == start_idx + images_per_task
         IN  IF i < remaining_images
             THEN Slice(images, start_idx + i, end_idx + i + 1)
             ELSE Slice(images, start_idx + remaining_images, end_idx + remaining_images)

\* The image lines of format_description.
RECURSIVE ImageLines(_, _)
ImageLines(images, i) ==
    IF i > Len(images) THEN ""
    ELSE "* Image " \o ToStr(i) \o ": " \o images[i].filename
            \o " (" \o ToStr(images[i].size) \o " bytes)\n" \o ImageLines(images, i + 1)

format_description(task, images) ==
    task.description \o "\n\n"
       \o "**AI Analysis:**\n"
       \o "* Priority: " \o task.priority \o "\n"
       \o "* Complexity: " \o task.complexity \o "\n"
       \o "* Category: " \o task.category \o "\n"
       \o (IF images = <<>> THEN "" ELSE "\n**Images:**\n" \o ImageLines(images, 1))

\* get_ai_enhanced_issues up to the loop: the client is checked, the
\* images and the text are extracted, and the LLM is asked for tasks.
\* A failed image extraction is caught and leaves no images.
GetAiEnhancedIssues(available, n, text, k) ==
    /\ pc = "idle"
    /\ IF ~available
       THEN /\ pc' = "error"
            /\ error' = "AI analysis is not available. Please configure OpenAI API key in config.py"
            /\ UNCHANGED ai_mode
       ELSE /\ document_images' = [j \in 1..n |-> ExtractedImage(j)]
            /\ enhanced_issues' = <<>>
            /\ IF IsBlank(text)
               THEN /\ pc' = "error"
                    /\ error' = "Document appears to be empty or contains no readable text"
                    /\ ai_tasks' = <<>>
               ELSE /\ ai_tasks' = [j \in 1..k |-> AiTask(j - 1)]
                    /\ IF k = 0
                       THEN pc' = "error" /\ error' = "AI analysis returned no tasks"
                       ELSE pc' = "enhance" /\ error' = ""
    /\ UNCHANGED <<extraction, segmentation, previous_issues, sink, gui>>

\* One pass of the loop over ai_tasks.
EnhanceTask ==
    /\ pc = "enhance"
    /\ Len(enhanced_issues) < Len(ai_tasks)
    /\ LET i           == Len(enhanced_issues)
           task        == ai_tasks[i + 1]
           task_images == TaskImages(document_images, ai_tasks, i)
       IN  enhanced_issues' = Append(enhanced_issues,
               [title       |-> task.title,
                description |-> format_description(task, task_images),
                priority    |-> task.priority,
                complexity  |-> task.complexity,
                category    |-> task.category,
                images      |-> task_images])
    /\ UNCHANGED <<pc, error, extraction, segmentation, previous_issues, sink, gui,
                   document_images, ai_tasks>>

\* return enhanced_issues
ReturnEnhanced ==
    /\ pc = "enhance"
    /\ Len(enhanced_issues) = Len(ai_tasks)
    /\ pc' = "enhanced"
    /\ UNCHANGED <<error, extraction, segmentation, previous_issues, sink, gui, ai_mode>>

NextAi ==
    \/ \E available \in BOOLEAN, n \in 0..MaxAiImages, text \in {"", ActionText},
          k \in 0..MaxAiTasks : GetAiEnhancedIssues(available, n, text, k)
    \/ EnhanceTask
    \/ ReturnEnhanced

SpecAi == Init /\ [][NextAi]_vars
(***************************************************************************)
(* The claims.                                                             *)
(***************************************************************************)
Segmenting == pc \in {"loop", "distribute", "returned", "done"}
Returned == pc \in {"returned", "done"}

\* The blocks the loop has passed.
Passed == IF pc = "loop" THEN pos - 1 ELSE Len(content_blocks)

\* The issues opened so far: the finalized ones and the open one.
OpenCount == IF pc = "loop" /\ current_issue # <<>> THEN 1 ELSE 0

\* An eligible element: not blank, no heading, title or section header, no
\* separator, at least 15 characters long and no boilerplate label.
Eligible(b) ==
    /\ ~IsBlank(b.content)
    /\ b.type \notin {"heading", "title", "section_header", "separator"}
    /\ Len(b.content) >= 15
    /\ ~EndsWith(b.content, "| Homecare")
    /\ ~StartsWith(b.content, "Patient:")
    /\ ~StartsWith(b.content, "Fachkraefte")

EligibleAmong(n) == {k \in 1..n : Eligible(content_blocks[k])}

\* C1: the number of issues segmentation has produced (the open one
\* counted) never exceeds the number of eligible elements it has passed, so
\* the number of issues returned is at most the number of eligible elements.
C1_IssuesAtMostEligible ==
    Segmenting => Len(issues) + OpenCount <= Cardinality(EligibleAmong(Passed))

\* C1 witness: issues were returned for a document that also holds an
\* element that is not eligible, as many issues as eligible elements.
C1_Witness ==
    /\ Returned
    /\ Len(issues) >= 2
    /\ Len(issues) = Cardinality(EligibleAmong(Len(content_blocks)))
    /\ Len(issues) < Len(content_blocks)
\* A boilerplate pattern: the suffix "| Homecare" or one of the prefixes.
Boilerplate(text) ==
    \/ EndsWith(text, "| Homecare")
    \/ StartsWith(text, "Patient:")
    \/ StartsWith(text, "Fachkraefte")

\* A numbered element of at least 15 characters that is no boilerplate.
ValidNumbered(b) ==
    b.type = "numbered_list" /\ Len(b.content) >= 15 /\ ~Boilerplate(b.content)

AllNumbered == \A k \in 1..Len(content_blocks) : ValidNumbered(content_blocks[k])

\* The first 100 characters of a text, with "..." after them when the text
\* is longer.
CutTitle(text) == IF Len(text) <= 100 THEN text ELSE SubSeq(text, 1, 100) \o "..."

\* C2 (as stated): a sequence of valid numbered elements yields one issue per
\* element, in order, titled with the element's text cut to its first 100
\* characters.
C2_TitlesCutTo100 ==
    (Returned /\ AllNumbered) =>
        /\ Len(issues) = Len(content_blocks)
        /\ \A k \in 1..Len(issues) :
              issues[k].title = SubSeq(content_blocks[k].content, 1, 100)

\* C2 (amended): a valid numbered element always starts a new issue, open
\* issue or not: the open issue is finalized and the new one is titled with
\* the element's text, cut to 100 characters and followed by "..." when it is
\* longer; k such elements yield k issues with these titles, in order.
C2_NumberedAlwaysSplits ==
    /\ [][(InLoop /\ ValidNumbered(Block)) =>
            /\ Len(issues') = Len(issues) + OpenCount
            /\ current_issue' # <<>>
            /\ current_issue'[1].title = CutTitle(Block.content)
            /\ current_issue'[1].description_parts = <<Block.content>>]_vars
    /\ []((Returned /\ AllNumbered) =>
            /\ Len(issues) = Len(content_blocks)
            /\ \A k \in 1..Len(issues) :
                  issues[k].title = CutTitle(content_blocks[k].content))

\* C2 witness: numbered elements only, one of them longer than 100
\* characters, and as many issues returned.
C2_Witness ==
    /\ Returned
    /\ AllNumbered
    /\ Len(content_blocks) >= 2
    /\ Len(issues) = Len(content_blocks)
    /\ \E k \in 1..Len(issues) : Len(content_blocks[k].content) > 100
    /\ \E k \in 1..Len(issues) : issues[k].title = content_blocks[k].content

\* C3: a separator met while an issue is open pushes that issue, finalized,
\* to the output and leaves no issue open; so [A, separator, B] with A and B
\* plain texts of 25 characters yields two issues, A alone in the first and
\* B alone in the second.
C3_SeparatorCloses ==
    /\ [][(InLoop /\ Block.type = "separator" /\ ~IsBlank(Block.content)
             /\ current_issue # <<>>) =>
            /\ current_issue' = <<>>
            /\ Len(issues') = Len(issues) + 1
            /\ SubSeq(issues', 1, Len(issues)) = issues
            /\ issues'[Len(issues')].title = current_issue[1].title
            /\ issues'[Len(issues')].content_blocks = Len(current_issue[1].content_blocks)]_vars
    /\ []((/\ Returned
           /\ Len(content_blocks) = 3
           /\ content_blocks[1].type = "text" /\ Len(content_blocks[1].content) = 25
           /\ content_blocks[2].type = "separator"
           /\ content_blocks[3].type = "text" /\ Len(content_blocks[3].content) = 25) =>
            /\ Len(issues) = 2
            /\ \A k \in 1..2 :
                  /\ issues[k].title = content_blocks[2 * k - 1].content
                  /\ issues[k].content_blocks = 1
                  /\ StartsWith(issues[k].description, content_blocks[2 * k - 1].content)
                  /\ issues[k].links = content_blocks[2 * k - 1].links)

\* C3 witness: two different texts of 25 characters around a separator, and
\* two issues returned.
C3_Witness ==
    /\ Returned
    /\ Len(content_blocks) = 3
    /\ content_blocks[1].type = "text" /\ Len(content_blocks[1].content) = 25
    /\ content_blocks[2].type = "separator"
    /\ content_blocks[3].type = "text" /\ Len(content_blocks[3].content) = 25
    /\ content_blocks[1].content # content_blocks[3].content
    /\ Len(issues) = 2

\* A short or boilerplate text.
ShortOrBoilerplate(text) == Len(text) < 15 \/ Boilerplate(text)

\* The open issue took the text of the block as its last description part,
\* and no issue was created or closed.
Absorbed ==
    /\ issues' = issues
    /\ current_issue' # <<>>
    /\ current_issue'[1].title = current_issue[1].title
    /\ current_issue'[1].description_parts =
          Append(current_issue[1].description_parts, Block.content)

\* C4 (as stated): with an issue open, a short or boilerplate text is
\* appended to the open issue whatever the kind of its element.
C4_AbsorbedWhateverKind ==
    [][(InLoop /\ current_issue # <<>> /\ ShortOrBoilerplate(Block.content)) =>
          Absorbed]_vars

\* C4 (amended): with an issue open, a short or boilerplate text that is not
\* blank, of an element that is no separator, is appended to the open issue
\* as its last description part; no issue is created and none is closed.
C4_AbsorbedUnlessSeparatorOrBlank ==
    [][(InLoop /\ current_issue # <<>> /\ ShortOrBoilerplate(Block.content)
          /\ ~IsBlank(Block.content) /\ Block.type # "separator") =>
          Absorbed]_vars

\* C4 witness: the open issue has taken the short text of a numbered
\* element and the label "Austria | Homecare".
C4_Witness ==
    /\ pc = "loop"
    /\ current_issue # <<>>
    /\ Len(current_issue[1].description_parts) = 3
    /\ current_issue[1].description_parts[3] = "Austria | Homecare"
    /\ \E k \in 2..3 : /\ content_blocks[k].type = "numbered_list"
                       /\ current_issue[1].description_parts[k] = content_blocks[k].content
\* The images attached to the issues, issue after issue.
RECURSIVE AttachedFrom(_)
AttachedFrom(k) == IF k > Len(issues) THEN <<>> ELSE issues[k].images \o AttachedFrom(k + 1)

Attached == AttachedFrom(1)

\* C5: when segmentation has produced at least one issue, after the
\* distribution the issues hold as many images as were extracted, every
\* extracted image once.
C5_ImageConservation ==
    (Returned /\ Len(issues) >= 1) =>
        /\ Len(Attached) = Len(extracted_images)
        /\ \A n \in 1..Len(extracted_images) :
              Cardinality({j \in 1..Len(Attached) : Attached[j] = extracted_images[n]}) = 1

\* C5 witness: two images extracted, one linked to its issue by the loop
\* and one handed out afterwards to another issue.
C5_Witness ==
    /\ Returned
    /\ Len(issues) >= 2
    /\ Len(extracted_images) = 2
    /\ \E k \in 1..Len(content_blocks) : content_blocks[k].image_ref = "image_1"
    /\ issues[2].images = <<extracted_images[1]>>
    /\ issues[1].images = <<extracted_images[2]>>

\* The filenames some issue refers to.
Referenced ==
    UNION { {issues[k].images[j].filename : j \in 1..Len(issues[k].images)} :
            k \in 1..Len(issues) }

\* The indices of the extracted images no issue refers to.
UnlinkedIndices ==
    {n \in 1..Len(extracted_images) : extracted_images[n].filename \notin Referenced}

\* The share of the k-th of n issues: the i-th unlinked image, i counting
\* from 0, for every i with i mod n = k - 1, in extraction order.
Share(k, n) ==
    LET mine == {i \in 0..(Cardinality(UnlinkedIndices) - 1) : i % n = k - 1}
    IN  [j \in 1..Cardinality(mine) |->
            extracted_images[KthOf(UnlinkedIndices, KthOf(mine, j) + 1)]]

\* C6: the distribution appends the i-th unlinked image, in extraction
\* order, to issues[i mod len(issues)], and leaves the linked images and
\* everything else of the issues as they are.
C6_RoundRobin ==
    [][(pc = "distribute" /\ issues # <<>>) =>
          /\ pc' = "returned"
          /\ Len(issues') = Len(issues)
          /\ \A k \in 1..Len(issues) :
                issues'[k] =
                   [issues[k] EXCEPT !.images = @ \o Share(k, Len(issues))]]_vars

\* C6 witness: two unlinked images went to two issues, the first to the
\* first issue and the second to the second.
C6_Witness ==
    /\ Returned
    /\ Len(issues) = 2
    /\ Len(extracted_images) = 2
    /\ \A k \in 1..Len(content_blocks) : ~content_blocks[k].has_image
    /\ \A k \in 1..2 : issues[k].images = <<extracted_images[k]>>

\* C7: with no issue or no unlinked image, the distribution completes
\* normally and returns the issue list as it is.
C7_DistributionNoOp ==
    [][(pc = "distribute" /\ (issues = <<>> \/ UnlinkedIndices = {})) =>
          (pc' = "returned" /\ issues' = issues /\ error' = error)]_vars
\* The links of the eligible blocks among the first n of a sequence, in
\* document order.
RECURSIVE EligibleLinks(_, _)
EligibleLinks(blocks, n) ==
    IF n = 0 THEN <<>>
    ELSE EligibleLinks(blocks, n - 1) \o (IF Eligible(blocks[n]) THEN blocks[n].links ELSE <<>>)

\* The links of the issues, issue after issue, the open one last.
RECURSIVE IssueLinksFrom(_)
IssueLinksFrom(k) ==
    IF k > Len(issues)
    THEN (IF pc = "loop" /\ current_issue # <<>> THEN current_issue[1].links ELSE <<>>)
    ELSE issues[k].links \o IssueLinksFrom(k + 1)

\* C8: the links of the elements that open an issue or are appended to one
\* by the boundary decision are in the issue that took the element's text, in
\* document order, and in no other issue; the links of skipped and context
\* elements are in none.
C8_LinkRoundTrip ==
    /\ Segmenting => IssueLinksFrom(1) = EligibleLinks(content_blocks, Passed)
    /\ (pc = "loop" /\ current_issue # <<>>) =>
          current_issue[1].links =
             EligibleLinks(current_issue[1].content_blocks,
                           Len(current_issue[1].content_blocks))

\* C8 witness: one issue holds the links of two of its elements in document
\* order, and the link of the label between them is dropped.
C8_Witness ==
    /\ Returned
    /\ Len(issues) = 1
    /\ Len(content_blocks) = 3
    /\ content_blocks[2].links # <<>> /\ ~Eligible(content_blocks[2])
    /\ content_blocks[1].links # content_blocks[3].links
    /\ issues[1].links = content_blocks[1].links \o content_blocks[3].links
    /\ Len(issues[1].links) = 2

\* The groups of an axis whose list holds the block.
GroupsHolding(axis, block) ==
    {g \in DOMAIN categories[axis] : \E k \in 1..Len(categories[axis][g]) :
                                        categories[axis][g][k] = block}

\* The number of blocks filed under an axis.
RECURSIVE FiledFrom(_, _)
FiledFrom(axis, g) ==
    IF g > Len(Groups(axis)) THEN 0
    ELSE Len(categories[axis][Groups(axis)[g]]) + FiledFrom(axis, g + 1)

\* The values get_block_categories gives a block for an axis.
ValuesFor(axis, block) ==
    LET pairs == get_block_categories(block, categories)
    IN  {pairs[k].value : k \in {j \in 1..Len(pairs) : pairs[j].type = axis}}

Categorized == pc \in {"loop", "distribute", "returned", "done"}

\* C9: categorization files every block under exactly one device group,
\* one page_type group and one issue_type group, and under at most one
\* component group; get_block_categories gives every block its device and
\* its page_type.
C9_CategoriesExhaustiveExclusive ==
    Categorized =>
        /\ \A axis \in {"device", "page_type", "issue_type"} :
              FiledFrom(axis, 1) = Len(content_blocks)
        /\ FiledFrom("component", 1) <= Len(content_blocks)
        /\ \A k \in 1..Len(content_blocks) :
              LET b == content_blocks[k]
              IN  /\ Cardinality(GroupsHolding("device", b)) = 1
                  /\ Cardinality(GroupsHolding("page_type", b)) = 1
                  /\ Cardinality(GroupsHolding("issue_type", b)) = 1
                  /\ Cardinality(GroupsHolding("component", b)) <= 1
                  /\ ValuesFor("device", b) = GroupsHolding("device", b)
                  /\ ValuesFor("page_type", b) = GroupsHolding("page_type", b)

\* C9 witness: three categorized blocks, one with a component and one
\* without, one filed under the fallback groups both, general and content.
C9_Witness ==
    /\ Categorized
    /\ Len(content_blocks) = 3
    /\ \E k \in 1..3 : GroupsHolding("component", content_blocks[k]) = {}
    /\ \E k \in 1..3 : GroupsHolding("component", content_blocks[k]) # {}
    /\ \E k \in 1..3 : /\ GroupsHolding("device", content_blocks[k]) = {"both"}
                       /\ GroupsHolding("page_type", content_blocks[k]) = {"general"}
                       /\ GroupsHolding("issue_type", content_blocks[k]) = {"content"}

\* C10: when the insight call raises, create_comprehensive_issues ends as it
\* ends with no LLM configured: the same issues with the same titles, links,
\* images, tables, categories and descriptions, none with an AI Analysis
\* section.
C10_LlmFailureIsolated ==
    (ai_outcome = "raises" /\ pc \in {"returned", "done", "error"}) =>
        LET plain == create_comprehensive_issues(content_blocks, extracted_images, <<>>)
        IN  /\ issues = plain.issues
            /\ (error = "ZeroDivisionError") <=> (plain.error = "ZeroDivisionError")
            /\ \A k \in 1..Len(issues) : ~Contains(issues[k].description, "AI Analysis")

\* C10 witness: the insight call raised and issues were returned, one of
\* them with a title an LLM task would match.
C10_Witness ==
    /\ ai_outcome = "raises"
    /\ Returned
    /\ Len(issues) >= 2
    /\ \E k \in 1..Len(issues) : InsightMatches(AiTasks[1], issues[k].title)
\* C11: a second run of segmentation and categorization on the same
\* analyzer, over the same elements, image registry and insights, returns
\* the issues the first run returned, and no step of a run changes the
\* elements or the image registry.
C11_SecondRunIdentical ==
    /\ []((pc \in {"returned", "done"} /\ previous_issues # <<>>) =>
             issues = previous_issues[Len(previous_issues)])
    /\ [][(pc \in {"loop", "distribute", "returned"}) =>
             (content_blocks' = content_blocks /\ extracted_images' = extracted_images)]_vars

\* C11 witness: the second run has returned two issues, the first with a
\* link, an image linked by the loop and an image handed out by the
\* distribution, after the LLM returned insights.
C11_Witness ==
    /\ pc = "returned"
    /\ previous_issues # <<>>
    /\ Len(issues) = 2
    /\ ai_outcome = "returns"
    /\ issues[1].links # <<>>
    /\ Len(issues[1].images) = 2
    /\ Cardinality({k \in 1..Len(content_blocks) : content_blocks[k].has_image}) = 1

\* A text longer than 30 characters that starts with no bullet glyph and
\* holds an action-verb keyword, in an element that is no list element.
ActionElement(b) ==
    /\ b.type \notin {"numbered_list", "list_item"}
    /\ Len(b.content) > 30
    /\ \A g \in {"*", "-", "+"} : ~StartsWith(b.content, g)
    /\ \E kw \in {"fix the", "resolve the", "update the", "correct the", "improve the",
                  "implement", "display", "optimal", "space", "cut off", "jump"} :
          Contains(Lower(b.content), kw)

\* The step opens an issue for the block the loop stands at.
OpensIssue ==
    /\ current_issue' # <<>>
    /\ current_issue'[1].description_parts = <<Block.content>>
    /\ current_issue'[1].title = CutTitle(Block.content)
    /\ Len(issues') = Len(issues) + OpenCount

\* C19: an action element met while an issue is open with 4 or fewer
\* description parts is appended to that issue; it opens a new issue only
\* when no issue is open or the open one has more than 4 parts, and then it
\* does when it is eligible.
C19_TieBreakAgainstSplitting ==
    [][(InLoop /\ ActionElement(Block)) =>
          /\ (current_issue # <<>> /\ Len(current_issue[1].description_parts) <= 4) =>
                Absorbed
          /\ (Len(issues') > Len(issues) \/ OpensIssue) =>
                (current_issue = <<>> \/ Len(current_issue[1].description_parts) > 4)
          /\ (Eligible(Block)
                /\ (current_issue = <<>> \/ Len(current_issue[1].description_parts) > 4)) =>
                OpensIssue]_vars

\* C19 witness: an action element was appended to the open issue as its
\* second part, and a later one opened the second issue when the first had
\* five parts.
C19_Witness ==
    /\ pc = "returned"
    /\ Len(content_blocks) = 6
    /\ ActionElement(content_blocks[2])
    /\ ActionElement(content_blocks[6])
    /\ Len(issues) = 2
    /\ issues[1].content_blocks = 5
    /\ issues[2].title = content_blocks[6].content
\* The links and the tables of the blocks of a document, in order.
RECURSIVE LinksOf(_)
LinksOf(blocks) ==
    IF blocks = <<>> THEN <<>> ELSE Head(blocks).links \o LinksOf(Tail(blocks))

RECURSIVE TablesOf(_)
TablesOf(blocks) ==
    IF blocks = <<>> THEN <<>> ELSE Head(blocks).table_data \o TablesOf(Tail(blocks))

\* C12: whatever was extracted before, the accumulators of the analyzer hold
\* the artifacts of the document being extracted and nothing else: the link
\* list its links, the table list its tables, the image registry its images.
C12_FreshAccumulators ==
    pc = "extract" =>
        /\ extracted_links = LinksOf(content_blocks)
        /\ extracted_tables = TablesOf(content_blocks)
        /\ \A n \in 1..Len(extracted_images) : extracted_images[n] = ExtractedImage(n)
        /\ Len(content_blocks) <= MaxBlocks

\* The tests of the chain a URL satisfies, in the order email, video,
\* document, image, social, cloud, development, external.
ChainTypes ==
    <<"email", "video", "document", "image", "social", "cloud", "development", "external">>

Satisfied(url) ==
    LET low == Lower(url)
    IN  << StartsWith(url, "mailto:"),
           \E x \in VideoPlatforms : Contains(low, x),
           \E x \in DocumentExtensions : Contains(low, x),
           \E x \in ImageExtensions : Contains(low, x),
           \E x \in SocialPlatforms : Contains(low, x),
           \E x \in CloudPlatforms : Contains(low, x),
           \E x \in DevPlatforms : Contains(low, x),
           StartsWith(url, "http://") \/ StartsWith(url, "https://") >>

\* The type of the earliest test of the chain the URL satisfies, unknown
\* when it satisfies none.
EarliestType(url) ==
    LET sat == Satisfied(url)
        hits == {i \in 1..Len(sat) : sat[i]}
    IN  IF hits = {} THEN "unknown"
        ELSE ChainTypes[CHOOSE i \in hits : \A j \in hits : i <= j]

LinkTypes ==
    {"email", "video", "document", "image", "social", "cloud", "development", "external",
     "internal", "unknown"}

\* C16 (as stated): every link has the type of the earliest test its URL
\* satisfies in the chain email, video, document, image, social, cloud,
\* development, external, else unknown.
C16_ChainFromEmail ==
    \A k \in 1..Len(extracted_links) :
        extracted_links[k].type = EarliestType(extracted_links[k].url)

\* C16 (amended): an empty URL and a URL that starts with "internal:" are
\* internal; every other link has the type of the earliest test its URL
\* satisfies in the chain; the type is one of the ten.
C16_ChainFromInternal ==
    \A k \in 1..Len(extracted_links) :
        LET link == extracted_links[k]
        IN  /\ link.type \in LinkTypes
            /\ link.type = IF link.url = "" \/ StartsWith(link.url, "internal:")
                           THEN "internal"
                           ELSE EarliestType(link.url)

\* C16 witness: a youtu.be URL that ends in .pdf was classified as video
\* and a github.com URL that holds .PNG as image.
C16_Witness ==
    /\ Len(extracted_links) = 2
    /\ extracted_links[1] = [text |-> "Link", url |-> "https://youtu.be/x.pdf", type |-> "video"]
    /\ extracted_links[2] = [text |-> "Link", url |-> "https://github.com/a.PNG", type |-> "image"]

\* The keys of the create_issue calls that returned a ticket, in the order
\* of the calls.
RECURSIVE KeysOf(_)
KeysOf(calls) ==
    IF calls = <<>> THEN <<>>
    ELSE (IF Head(calls).key # "" THEN <<Head(calls).key>> ELSE <<>>) \o KeysOf(Tail(calls))

\* The ticket loop has started: the connection and project checks passed.
ChecksPassed == pc \in {"tickets", "tickets_returned"} /\ ticket_index >= 1

\* C13: once the checks have passed, create_issue is called for the issues
\* of the input in order, one call for each issue the loop has passed and,
\* when the function returns, one for every issue of the input whether or
\* not earlier calls failed; the key list is the keys of the calls that
\* returned a ticket, in input order.
C13_PerTicketIsolation ==
    ChecksPassed =>
        /\ Len(jira_calls) = ticket_index - 1
        /\ Len(jira_calls) <= Len(issues)
        /\ \A k \in 1..Len(jira_calls) : jira_calls[k].summary = issues[k].title
        /\ created_tickets = KeysOf(jira_calls)
        /\ (pc = "tickets_returned") => Len(jira_calls) = Len(issues)

\* Three issues, the first of which could not be created while the two
\* after it were.
C13_Witness ==
    /\ pc = "tickets_returned"
    /\ ticket_index >= 1
    /\ Len(issues) = 3
    /\ jira_calls[1].key = ""
    /\ created_tickets = <<"WEB-1", "WEB-2">>

\* C14: a ticket that create_issue returned has its key in the key list
\* and one record of details, whatever the attachments and the transition
\* did; the record counts the attachments that went through, and when the
\* ticket was not moved (the lookup raised, no transition fits, or the
\* transition raised) its status is "Default (To Do)" where a status was
\* asked for and "Default" where none was.
C14_TicketSurvivesFailures ==
    \A k \in 1..Len(jira_calls) :
        LET call == jira_calls[k]
        IN  call.key # "" =>
               \E d \in 1..Len(ticket_details) :
                  /\ d <= Len(created_tickets)
                  /\ created_tickets[d] = call.key
                  /\ ticket_details[d].key = call.key
                  /\ ticket_details[d].title = issues[k].title
                  /\ ticket_details[d].images = Cardinality(call.attached)
                  /\ ticket_details[d].images <= Len(issues[k].images)
                  /\ ticket_details[d].status =
                        IF call.moved
                        THEN (IF status_name # "" THEN status_name ELSE "To Do")
                        ELSE (IF status_name # "" THEN "Default (To Do)" ELSE "Default")

\* A ticket for an issue of two pictures none of which could be attached,
\* with a status asked for and a lookup that raised.
C14_Witness ==
    /\ pc = "tickets_returned"
    /\ status_name = "in progress"
    /\ \E k \in 1..Len(jira_calls) :
          /\ jira_calls[k].key # ""
          /\ Len(issues[k].images) = 2
          /\ jira_calls[k].attached = {}
          /\ jira_calls[k].lookup.raises
          /\ jira_calls[k].key \in {created_tickets[d] : d \in 1..Len(created_tickets)}
          /\ \E d \in 1..Len(ticket_details) :
                ticket_details[d].key = jira_calls[k].key
                    /\ ticket_details[d].status = "Default (To Do)"
                    /\ ticket_details[d].images = 0

\* The fields of a finalized issue.
FinalizedFields ==
    {"title", "description", "images", "links", "tables", "categories", "content_blocks"}

\* C15: analyze_document_comprehensively ends in one of two ways. It
\* returns, and then no exception is pending, the document had content
\* blocks, and the list is not empty, holds finalized issues only and is the
\* whole list create_comprehensive_issues makes of the blocks; or it raises,
\* and then there were no content blocks or segmentation made no issue.
\* With no content blocks or no issue it never returns.
C15_DocumentFailuresTerminal ==
    LET whole == create_comprehensive_issues(content_blocks, extracted_images, ai_insights)
    IN  /\ (pc = "done") =>
              /\ error = ""
              /\ content_blocks # <<>>
              /\ issues # <<>>
              /\ \A k \in 1..Len(issues) : DOMAIN issues[k] = FinalizedFields
              /\ whole.error = ""
              /\ issues = whole.issues
        /\ (pc = "error") =>
              /\ error # ""
              /\ content_blocks = <<>> \/ issues = <<>>
              /\ (content_blocks = <<>>) => error = "No content found in document"
              /\ (content_blocks # <<>>) =>
                    /\ whole.issues = <<>>
                    /\ error \in {"No issues could be created from document content",
                                  "ZeroDivisionError"}
        /\ (pc \in {"done", "error"} /\ (content_blocks = <<>> \/ issues = <<>>)) =>
              pc = "error"

\* A document with content blocks none of which opens an issue: the
\* analysis raises.
C15_Witness ==
    /\ pc = "error"
    /\ Len(content_blocks) = MaxBlocks
    /\ error = "No issues could be created from document content"

\* s is the beginning of t.
IsPrefix(s, t) == Len(s) <= Len(t) /\ SubSeq(t, 1, Len(s)) = s

\* The fields of a finalized issue that image distribution leaves alone.
FixedFields == FinalizedFields \ {"images"}

\* C17 as stated: from the moment an issue is pushed to the output no step
\* of the call changes any of its fields, neither the loop, nor the last
\* finalization, nor the image distribution.
C17_FinalizedNeverChange ==
    [][(pc \in {"loop", "distribute", "returned"}) =>
          /\ Len(issues') >= Len(issues)
          /\ \A k \in 1..Len(issues) : issues'[k] = issues[k]]_vars

\* C17: the loop and the last finalization never change a pushed issue, and
\* image distribution changes nothing of it but its image list, to which it
\* appends; the description stays as finalize_issue wrote it.
C17_FinalizedChangeOnlyImages ==
    [][(pc \in {"loop", "distribute", "returned"}) =>
          /\ Len(issues') >= Len(issues)
          /\ (pc = "distribute") => Len(issues') = Len(issues)
          /\ \A k \in 1..Len(issues) :
                /\ \A f \in FixedFields : issues'[k][f] = issues[k][f]
                /\ IsPrefix(issues[k].images, issues'[k].images)
                /\ (pc # "distribute") => issues'[k] = issues[k]]_vars

\* Two issues have been returned, and the first holds a picture that came
\* with distribution: its description does not list it.
C17_Witness ==
    /\ pc = "returned"
    /\ Len(issues) = 2
    /\ Len(issues[1].images) = 1
    /\ ~Contains(issues[1].description, issues[1].images[1].filename)

\* The loop stands at a heading, title or section header.
AtHeading == InLoop /\ Block.type \in HeadingTypes

\* C18: the pass over a heading, title or section header leaves the output
\* as it is and neither opens nor closes an issue: with an issue open, the
\* open issue gets the text as another description part and the block as
\* another content block and is otherwise the same (blank text adds
\* nothing); with none open, none is open afterwards.
C18_HeadingIsContextOnly ==
    [][AtHeading =>
          /\ issues' = issues
          /\ (current_issue = <<>>) => current_issue' = <<>>
          /\ (current_issue # <<>>) =>
                current_issue' =
                   IF IsBlank(Block.content) THEN current_issue
                   ELSE << [current_issue[1] EXCEPT
                              !.description_parts = Append(@, Block.content),
                              !.content_blocks = Append(@, Block)] >>]_vars

\* A heading of more than 30 characters with action keywords was passed
\* twice: first with no issue open, and nothing was opened; then after a
\* numbered item, and it went into the issue of that item.
C18_Witness ==
    /\ Len(HeadingText) > HeuristicMin
    /\ ContainsAny(Lower(HeadingText), ActionKeywords)
    /\ pc = "loop"
    /\ pos = 4
    /\ content_blocks[1].type = "heading" /\ content_blocks[1].content = HeadingText
    /\ content_blocks[2].type = "numbered_list"
    /\ content_blocks[3].type = "heading" /\ content_blocks[3].content = HeadingText
    /\ issues = <<>>
    /\ current_issue # <<>>
    /\ current_issue[1].title = content_blocks[2].content
    /\ current_issue[1].description_parts = <<content_blocks[2].content, HeadingText>>
    /\ current_issue[1].content_blocks = <<content_blocks[2], content_blocks[3]>>

\* s is the end of t.
IsSuffix(s, t) == Len(s) <= Len(t) /\ SubSeq(t, Len(t) - Len(s) + 1, Len(t)) = s

\* The image a block refers to, when the registry holds it.
ResolvableImage(block) ==
    LET num == ImageNum(block.image_ref)
    IN  IF block.has_image /\ block.image_ref # "" /\ num > 0 /\ num <= Len(extracted_images)
        THEN <<extracted_images[num]>>
        ELSE <<>>

\* C20: after the pass over a non-blank element that leaves an issue open
\* (the issue it was appended to, or the one it opened), that issue's
\* links end with the element's links, its images with the element's
\* resolvable image and its tables with the element's table, whatever
\* the kind of the element; an element that opens an issue leaves the
\* issue it closed without them.
C20_ArtifactsFollowElement ==
    [][(InLoop /\ ~IsBlank(Block.content) /\ current_issue' # <<>>) =>
          /\ IsSuffix(Block.links, current_issue'[1].links)
          /\ IsSuffix(ResolvableImage(Block), current_issue'[1].images)
          /\ IsSuffix(Block.table_data, current_issue'[1].tables)
          /\ (Len(issues') > Len(issues)) =>
                LET closed == issues'[Len(issues')]
                IN  /\ closed.links = current_issue[1].links
                    /\ closed.images = current_issue[1].images
                    /\ closed.tables = current_issue[1].tables]_vars

\* What an issue in progress holds besides its blocks and categories.
Holdings(current) ==
    IF current = <<>> THEN <<>>
    ELSE << [title             |-> current[1].title,
             description_parts |-> current[1].description_parts,
             images            |-> current[1].images,
             links             |-> current[1].links,
             tables            |-> current[1].tables] >>

\* Image references that resolve to no picture of the registry: ordinal 0,
\* no ordinal at all, and the ordinal after the last picture.
UnresolvableRefs == {"image_0", "image", "image_" \o ToStr(Len(extracted_images) + 1)}

\* C21: the pass over an element whose image reference resolves to no
\* picture raises nothing and moves on to the next element; the issues
\* pushed so far stay as they are, and the output and the open issue hold
\* what they would hold had the element no image (a reference with ordinal
\* 0 or with no ordinal does the same): the same titles, description
\* parts, links and tables, and no image more than before.
C21_UnresolvableImageNotFatal ==
    [][(InLoop /\ Block.has_image /\ ResolvableImage(Block) = <<>>) =>
          LET plain == LoopBody(issues, current_issue,
                                [Block EXCEPT !.has_image = FALSE, !.image_ref = ""],
                                categories, ai_insights, extracted_images)
          IN  /\ pc' = "loop" /\ error' = "" /\ pos' = pos + 1
              /\ IsPrefix(issues, issues')
              /\ issues' = plain.issues
              /\ Holdings(current_issue') = Holdings(plain.current_issue)
              /\ \A ref \in UnresolvableRefs :
                    LET other == LoopBody(issues, current_issue,
                                          [Block EXCEPT !.image_ref = ref],
                                          categories, ai_insights, extracted_images)
                    IN  /\ other.issues = issues'
                        /\ Holdings(other.current_issue) = Holdings(current_issue')]_vars

\* A registry of one picture, a blank paragraph of two pictures, and
\* after it an element referring to the third picture: the element went
\* into the open issue, which holds no picture.
C21_Witness ==
    /\ pc = "loop"
    /\ pos = 4
    /\ Len(extracted_images) = 1
    /\ content_blocks[3].has_image
    /\ ImageNum(content_blocks[3].image_ref) = 3
    /\ current_issue # <<>>
    /\ current_issue[1].description_parts
          = <<content_blocks[1].content, content_blocks[3].content>>
    /\ current_issue[1].images = <<>>

\* The types the classifier gives for the style of a paragraph.
StyleTypes == {"heading", "title", "subtitle", "list_item"}

\* C22: a paragraph that starts with ten dashes and whose style is none of
\* heading, title, subtitle and list paragraph is a separator, and the
\* pass over it closes the open issue.
C22_DashesAreSeparator ==
    [][(InLoop /\ StartsWith(Block.content, Dashes) /\ Block.type \notin StyleTypes) =>
          /\ Block.type = "separator"
          /\ (current_issue # <<>>) =>
                /\ current_issue' = <<>>
                /\ Len(issues') = Len(issues) + 1]_vars

\* The block is context or a boundary: a heading, a separator, or a short
\* or boilerplate text.
ContextKind(block) ==
    /\ ~IsBlank(block.content)
    /\ \/ block.type \in HeadingTypes
       \/ block.type = "separator"
       \/ ShortOrBoilerplate(block.content)

\* No issue is open when the loop reaches the k-th block.
NoneOpenAt(k) ==
    LoopFrom(<<>>, <<>>, SubSeq(content_blocks, 1, k - 1), 1, categories, ai_insights,
             extracted_images).current_issue = <<>>

\* The lines of the descriptions of the issues.
DescriptionLines ==
    UNION { {SplitOn(issues[j].description, "\n")[n] :
                n \in 1..Len(SplitOn(issues[j].description, "\n"))} : j \in 1..Len(issues) }

\* C23: the pass over a heading, a separator or a short or boilerplate
\* text with no issue open changes neither the output nor the open-issue
\* state, and only moves on; and when the issues are returned, a text all
\* of whose elements were context met with no issue open is a line of no
\* description.
C23_ContextDroppedWhenNoneOpen ==
    [][/\ (InLoop /\ ContextKind(Block) /\ current_issue = <<>>) =>
             /\ issues' = issues
             /\ current_issue' = <<>>
             /\ pos' = pos + 1
             /\ pc' = "loop" /\ error' = error
       /\ (pc = "returned") =>
             \A k \in 1..Len(content_blocks) :
                (\A n \in 1..Len(content_blocks) :
                    (content_blocks[n].content = content_blocks[k].content)
                        => (ContextKind(content_blocks[n]) /\ NoneOpenAt(n)))
                    => content_blocks[k].content \notin DescriptionLines]_vars

\* A heading, a separator and a boilerplate label were passed with no
\* issue open, then a text opened the only issue that is returned.
C23_Witness ==
    /\ pc = "returned"
    /\ Len(content_blocks) = 3
    /\ content_blocks[1].type \in HeadingTypes \cup {"separator"}
    /\ content_blocks[2].content = "Austria | Homecare"
    /\ Len(issues) = 1
    /\ issues[1].content_blocks = 1
    /\ issues[1].title = content_blocks[3].content

\* The groups of an axis that hold a block, in the categories cats.
GroupsOf(cats, axis, block) ==
    {g \in DOMAIN cats[axis] : \E n \in 1..Len(cats[axis][g]) : cats[axis][g][n] = block}

\* The blocks with the k-th taken out and put in at place m.
Moved(blocks, k, m) ==
    LET rest == SubSeq(blocks, 1, k - 1) \o SubSeq(blocks, k + 1, Len(blocks))
    IN  SubSeq(rest, 1, m - 1) \o <<blocks[k]>> \o SubSeq(rest, m, Len(rest))

\* The categorization has just been made.
JustCategorized == pc = "loop" /\ pos = 1

\* C24: the groups of a block do not depend on where the block stands among
\* the headings: put anywhere else in the document, before or after any
\* heading, a block that is no heading is filed under the same groups of
\* every axis; and when a heading anywhere holds a mobile keyword, every
\* block is filed under device mobile.
C24_ContextBeforeCategorization ==
    JustCategorized =>
        /\ \A k \in 1..Len(content_blocks), m \in 1..Len(content_blocks) :
              (content_blocks[k].type \notin HeadingTypes) =>
                  LET elsewhere ==
                          categorize_content_intelligently(Moved(content_blocks, k, m))
                  IN  \A axis \in DOMAIN categories :
                         GroupsOf(elsewhere, axis, content_blocks[k])
                             = GroupsOf(categories, axis, content_blocks[k])
        /\ (\E h \in 1..Len(content_blocks) :
               /\ content_blocks[h].type \in HeadingTypes
               /\ ContainsAny(Lower(content_blocks[h].content),
                              {"mobile", "smartphone", "phone", "responsive"}))
              => \A k \in 1..Len(content_blocks) :
                    GroupsOf(categories, "device", content_blocks[k]) = {"mobile"}

\* A text without a device keyword stands before the only heading, which
\* holds a mobile keyword, and is filed under mobile.
C24_Witness ==
    /\ JustCategorized
    /\ Len(content_blocks) = 2
    /\ content_blocks[1].content = "Logo overlaps the sidebar"
    /\ content_blocks[2].type = "heading"
    /\ Contains(Lower(content_blocks[2].content), "mobile")
    /\ GroupsOf(categories, "device", content_blocks[1]) = {"mobile"}

\* The sections that are page types.
PageSections == {"homepage", "about", "news", "contact"}

\* The page type whose keywords a text holds, the first in the order
\* homepage, about, news, contact; "" when it holds none.
FirstPageType(text) ==
    IF ContainsAny(text, {"homepage", "home page", "main page", "landing"}) THEN "homepage"
    ELSE IF ContainsAny(text, {"about", "ueber uns", "about us"}) THEN "about"
    ELSE IF ContainsAny(text, {"news", "feed", "articles", "blog"}) THEN "news"
    ELSE IF ContainsAny(text, {"contact", "kontakt"}) THEN "contact"
    ELSE ""

\* C27: when the context pass ends with current_section being a page type,
\* the heading context holds a page type keyword; every block is filed
\* under the first page type whose keyword its text or the heading context
\* holds, and under general when there is none, in which case
\* current_section is no page type.
C27_SectionFallbackUnused ==
    JustCategorized =>
        LET ctx == DocumentContext(content_blocks)
            context == AllContextText(ctx)
        IN  /\ (ctx.current_section \in PageSections) => FirstPageType(context) # ""
            /\ \A k \in 1..Len(content_blocks) :
                  LET combined == Lower(content_blocks[k].content) \o " " \o context
                  IN  IF FirstPageType(combined) # ""
                      THEN GroupsOf(categories, "page_type", content_blocks[k])
                               = {FirstPageType(combined)}
                      ELSE /\ GroupsOf(categories, "page_type", content_blocks[k])
                                  = {"general"}
                           /\ ctx.current_section \notin PageSections

\* The context pass ended in section news, and the blocks are filed under
\* homepage, whose keyword an earlier heading holds.
C27_Witness ==
    /\ JustCategorized
    /\ DocumentContext(content_blocks).current_section = "news"
    /\ Len(content_blocks) = 3
    /\ content_blocks[3].type = "text"
    /\ GroupsOf(categories, "page_type", content_blocks[3]) = {"homepage"}

\* The heading of the section.
AiHeading == "**AI Analysis:**"

\* How often a text occurs in another.
Occurrences(s, kw) ==
    Cardinality({i \in 1..(Len(s) - Len(kw) + 1) : SubSeq(s, i, i + Len(kw) - 1) = kw})

\* The insights, in the order the LLM returned them, whose lower-cased
\* title holds one of the first three words of the lower-cased issue
\* title.
MatchingInsights(title) ==
    LET words == Split(Lower(title))
        three == {words[n] : n \in 1..(IF Len(words) < 3 THEN Len(words) ELSE 3)}
    IN  IF ai_insights = <<>> THEN {}
        ELSE {k \in 1..Len(ai_insights[1]) :
                 \E w \in three : Contains(Lower(ai_insights[1][k].title), w)}

\* C25: the description of a returned issue holds the heading of the AI
\* section at most once; it holds it when an insight matches, and then it
\* ends with the priority, complexity and category of the first insight
\* that matches; without insights or without a match it does not hold it.
C25_AtMostOneInsight ==
    Returned =>
        \A j \in 1..Len(issues) :
            LET matching == MatchingInsights(issues[j].title)
                first == CHOOSE k \in matching : \A n \in matching : k <= n
                task == ai_insights[1][first]
            IN  /\ Occurrences(issues[j].description, AiHeading) <= 1
                /\ IF matching = {}
                   THEN ~Contains(issues[j].description, AiHeading)
                   ELSE EndsWith(issues[j].description,
                                 AiHeading \o "\n- **Priority**: " \o task.priority
                                     \o "\n- **Complexity**: " \o task.complexity
                                     \o "\n- **Category**: " \o task.category)

\* The LLM returned its insights; one issue is matched by both and carries
\* the first, another is matched by the second only, a third by none.
C25_Witness ==
    /\ Returned
    /\ ai_insights # <<>>
    /\ Len(issues) = 3
    /\ \E j \in 1..3 : MatchingInsights(issues[j].title) = {1, 2}
    /\ \E j \in 1..3 : MatchingInsights(issues[j].title) = {2}
    /\ \E j \in 1..3 : MatchingInsights(issues[j].title) = {}

\* C26: at most one thread of run_creation_logic is active at a time, the
\* create button is disabled while one is active, and stdout is bound to
\* the window while a thread is inside create_jira_tickets_with_type.
C26_OneWorkerAtATime ==
    /\ Cardinality({w \in 1..Len(workers) : Active(w)}) <= 1
    /\ (\E w \in 1..Len(workers) : Active(w) /\ workers[w] # "started")
          => create_button = "disabled"
    /\ (\E w \in 1..Len(workers) : workers[w] = "creating") => stdout = "gui"

\* The filenames the Attached Images section of a description lists.
ListedImages(description) ==
    {extracted_images[n].filename : n \in
        {i \in 1..Len(extracted_images) :
            Contains(description, "\n- " \o extracted_images[i].filename \o " (")}}

\* C28: the description of a returned issue lists the filenames of the
\* images the issue holds, those that came with distribution included, and
\* no other.
C28_DescriptionListsImages ==
    Returned =>
        \A j \in 1..Len(issues) :
            ListedImages(issues[j].description)
                = {issues[j].images[n].filename : n \in 1..Len(issues[j].images)}

\* The finalized issue is the emission of the issue in progress.
EmissionOf(finalized, open) ==
    /\ finalized.title = open.title
    /\ finalized.content_blocks = Len(open.content_blocks)
    /\ StartsWith(finalized.description, Join(open.description_parts, "\n"))
    /\ finalized.images = open.images
    /\ finalized.links = open.links
    /\ finalized.tables = open.tables

\* C29: at most one issue is open, and an open issue has a description
\* part and as many content blocks as description parts. A pass of the
\* loop emits nothing or the open issue, at the end of the list; an open
\* issue that is not emitted stays open, and one that is emitted is no
\* longer open, so every opened issue is emitted once, in the order of
\* opening. After the last element the open issue is emitted, and nothing
\* is emitted after that.
C29_EmittedOnceInOrder ==
    [][/\ Len(current_issue) <= 1
       /\ (pc = "loop" /\ current_issue # <<>>) =>
             /\ Len(current_issue[1].description_parts) >= 1
             /\ Len(current_issue[1].content_blocks)
                   = Len(current_issue[1].description_parts)
       /\ (pc = "loop") =>
             /\ IsPrefix(issues, issues')
             /\ Len(issues') <= Len(issues) + 1
             /\ (Len(issues') = Len(issues) + 1) =>
                   /\ current_issue # <<>>
                   /\ EmissionOf(issues'[Len(issues')], current_issue[1])
                   /\ InLoop => (current_issue' = <<>>
                                 \/ current_issue'[1].content_blocks = <<Block>>)
             /\ (Len(issues') = Len(issues) /\ current_issue # <<>>) =>
                   /\ InLoop
                   /\ current_issue' # <<>>
                   /\ current_issue'[1].title = current_issue[1].title
                   /\ IsPrefix(current_issue[1].description_parts,
                               current_issue'[1].description_parts)
             /\ (~InLoop) => Len(issues') = Len(issues) + Len(current_issue)
       /\ (pc \in {"distribute", "returned"}) =>
             /\ Len(issues') = Len(issues)
             /\ \A k \in 1..Len(issues) : issues'[k].title = issues[k].title]_vars

\* Three elements each opened an issue: the first two are emitted in
\* document order and the third is open.
C29_Witness ==
    /\ pc = "loop"
    /\ pos = 4
    /\ Len(issues) = 2
    /\ current_issue # <<>>
    /\ issues[1].title = CutTitle(content_blocks[1].content)
    /\ issues[2].title = CutTitle(content_blocks[2].content)
    /\ current_issue[1].title = CutTitle(content_blocks[3].content)
    /\ issues[1].title # issues[2].title

\* The images of the first j enhanced issues, in the order of the issues.
RECURSIVE ImagesUpTo(_)
ImagesUpTo(j) ==
    IF j = 0 THEN <<>> ELSE ImagesUpTo(j - 1) \o enhanced_issues[j].images

\* C30: with n images and k tasks, the images of the tasks enhanced so
\* far, read in task order, are the first images of the document in
\* extraction order, and when all tasks are enhanced they are all n of
\* them: the slices are contiguous, disjoint and cover the images. The
\* first n mod k tasks hold floor(n/k)+1 images and the others floor(n/k).
C30_ImagesSlicedEvenly ==
    (pc \in {"enhance", "enhanced"}) =>
        LET n == Len(document_images)
            k == Len(ai_tasks)
        IN  /\ k >= 1
            /\ IsPrefix(ImagesUpTo(Len(enhanced_issues)), document_images)
            /\ (pc = "enhanced") => ImagesUpTo(k) = document_images
            /\ \A j \in 1..Len(enhanced_issues) :
                  Len(enhanced_issues[j].images)
                     = IF j - 1 < n % k THEN (n \div k) + 1 ELSE n \div k
            /\ \A j, m \in 1..Len(enhanced_issues) :
                  /\ Len(enhanced_issues[j].images) - Len(enhanced_issues[m].images) <= 1
                  /\ (j # m) =>
                        \A x \in 1..Len(enhanced_issues[j].images),
                           y \in 1..Len(enhanced_issues[m].images) :
                              enhanced_issues[j].images[x] # enhanced_issues[m].images[y]

\* Seven images over three tasks: three, two and two.
C30_Witness ==
    /\ pc = "enhanced"
    /\ Len(document_images) = 7
    /\ Len(ai_tasks) = 3
    /\ Len(enhanced_issues[1].images) = 3
    /\ Len(enhanced_issues[2].images) = 2
    /\ Len(enhanced_issues[3].images) = 2
    /\ enhanced_issues[2].images[1] = document_images[4]
====
